---- MODULE Spec2Model ----
(***************************************************************************)
(* Tab5GitHubStatus: the background fetch task (Core 0), the single-slot   *)
(* hand-off fetchResult / newDataReady guarded by fetchMutex, and the      *)
(* foreground loop() (Core 1) with applyFetchResults and the screensaver   *)
(* controller.                                                             *)
(*                                                                         *)
(* C arrays are 0-based, the sequences here 1-based: prevStatus[i] of the  *)
(* source is prevStatus[i + 1] here.  A status string is one of the feed's *)
(* values, "" (the zeroed array) or Torn (a string being overwritten by    *)
(* strncpy while the other core reads it).                                 *)
(***************************************************************************)
EXTENDS Integers, Sequences, FiniteSets, TLC

\* ---------------------------------------------------------------- constants
MAX_COMPONENTS == 10

HTTP_CODE_OK == 200
REFRESH_INTERVAL == 120000
MATRIX_CHAR_W == 22
MATRIX_CHAR_H == 30
MATRIX_MAX_COLS == 1280 \div MATRIX_CHAR_W + 1
SCREENSAVER_TIMEOUT == 300000
MATRIX_FRAME_MS == 33

\* ------------------------------------------------------------------- bounds
\* poll cycles published and not yet copied out by the foreground
MaxPending == 2
\* SCREENSAVER_TIMEOUT counted in coarse ticks of the millisecond clock; one
\* loop() iteration lasts at most one tick
IdleTicks == 2
\* milliseconds of uptime over which the clock is followed
ClockSpan == 300003
\* display sizes: too narrow for one column of glyphs, and one column of two
\* rows
BlankW == 0
RainW == 22
RainH == 60

\* ------------------------------------------------------------ feed contents
Operational == "operational"
Degraded    == "degraded_performance"
Partial     == "partial_outage"
Major       == "major_outage"
\* any value the code has no branch for
Maintenance == "under_maintenance"
Torn        == "~torn~"

NameGit    == <<"G", "i", "t">>
NameVisit  == <<"V", "i", "s", "i", "t", " ", "w">>
NameVis    == <<"V", "i", "s">>

Comp(n, s, h) == [name |-> n, status |-> s, only_show_if_degraded |-> h]

\* strncmp(name, "Visit", 5) == 0
HasVisitPrefix(name) ==
    /\ Len(name) >= 5
    /\ SubSeq(name, 1, 5) = <<"V", "i", "s", "i", "t">>

\* ------------------------------------------------------------- status texts
\* a status-bar text is <<format, argument>>; the argument is the HTTP code of
\* "HTTP error: %d" and 0 otherwise
TextNone      == <<"", 0>>
TextWifi      == <<"WiFi disconnected", 0>>
TextUpdatedAt == <<"Updated: %H:%M:%S", 0>>
TextUpdated   == <<"Updated", 0>>
TextJson      == <<"JSON parse error", 0>>
\* a failure text that leaves the code out
TextHttpNoCode(code) == <<"HTTP error", 0>>

TextHttp(code) == <<"HTTP error: %d", code>>

\* ------------------------------------------------------------- FetchResult
\* static FetchResult fetchResult: zero-initialised
ZeroResult ==
    [valid |-> FALSE, statusChanged |-> FALSE, allOperational |-> FALSE,
     worstSeverity |-> 0, hasIncidents |-> FALSE, componentCount |-> 0,
     components |-> <<>>, statusBarText |-> TextNone]

\* the task's local res after memset and the five assignments
FreshResult ==
    [ZeroResult EXCEPT !.valid = FALSE, !.allOperational = TRUE,
                       !.worstSeverity = 0, !.hasIncidents = FALSE,
                       !.statusChanged = FALSE]

EmptyPrev == [i \in 1..MAX_COMPONENTS |-> ""]

\* lines 1359-1367: every status label is created with the text ""
EmptyLabels == [i \in 1..MAX_COMPONENTS |-> ""]

\* ------------------------------------------------------------------- state
VARIABLES
    \* shared between the two cores
    fetchMutex,        \* "none", "task" (Core 0) or "loop" (Core 1)
    fetchResult,       \* the slot
    newDataReady,
    prevStatus,        \* written by Core 1, read by Core 0 without the mutex
    \* fetchTaskFunc
    ppc,               \* the task's position
    pres,              \* its local res (ZeroResult when out of scope)
    feed,              \* the JSON components not yet iterated
    lastDelay,         \* milliseconds of the vTaskDelay that began this cycle
    doc,               \* doc["components"] while the JsonDocument is in scope
    \* loop() and applyFetchResults
    pc,                \* the loop's position
    fres,              \* applyFetchResults' local res (ZeroResult out of scope)
    fi,                \* its loop index i (0-based)
    statusChanged,     \* its local statusChanged
    screensaverActive,
    allOperational,
    hasUnresolvedIncidents,
    matrixSeverity,
    cachedStatusText,
    colSprite,         \* TRUE when the strip sprite is allocated
    touchElapsed,      \* millis() - lastTouchTime in ticks, up to IdleTicks
    frameDue,          \* millis() - lastFrameTime >= MATRIX_FRAME_MS
    screenAsleep,      \* ui.isScreenAsleep()
    screenW,           \* display width in pixels, read once in setup()
    screenH,           \* display height in pixels
    matrixCols,        \* the on-screen columns: headY, speed, length, active,
                       \* spawnDelay
    matrixGlyphIdx,    \* glyph index of each on-screen cell
    matrixColors,      \* RGB565 colour of each on-screen cell
    statusBarRight,    \* the text shown by statusBar
    statusBanner,      \* the banner's colour
    statusLabels,      \* the status text of each dashboard row
    \* history
    published,         \* the result the task published last
    unread,            \* publishes since the last copy-out
    seenDiff,          \* the task read a prevStatus entry unlike the feed's
    incidentsDown,     \* this cycle's incidents GET or its parse failed
    itTook,            \* publishes covered by the copy-out just made
    itDiffers,         \* the result copied out differs from prevStatus
    itTouched,         \* this loop iteration sampled a touch
    itStops,           \* matrixStopScreensaver calls of this iteration
    itRedraw,          \* this iteration ran ui.drawAll
    itApplied,         \* what applyFetchResults did in this iteration
    itWiped,           \* the last idle step started the screensaver over
                       \* cells that held rain
    offDelay,          \* per column: the spawnDelay drawn when it was retired
    offTicks,          \* per column: the ticks it has stayed inactive since
    \* the millisecond clock; a value of the counter is <<high, low>>, its
    \* two 16-bit halves
    millis,            \* what millis() returns now
    lastTouchTime,
    lastFrameTime,
    uptime,            \* milliseconds passed since the counter was first read
    touchAt,           \* uptime when lastTouchTime was assigned
    frameAt            \* uptime when lastFrameTime was assigned

sharedVars == <<fetchMutex, fetchResult, newDataReady, prevStatus>>
taskVars   == <<ppc, pres, feed, lastDelay, doc>>
applyVars  == <<fres, fi, statusChanged>>
modelVars  == <<allOperational, hasUnresolvedIncidents, matrixSeverity,
                cachedStatusText>>
saverVars  == <<screensaverActive, colSprite, touchElapsed, frameDue,
                screenAsleep>>
widgetVars == <<statusBarRight, statusBanner, statusLabels>>
matrixVars == <<matrixCols, matrixGlyphIdx, matrixColors>>
rainVars   == <<screenW, screenH, matrixVars, itWiped, offDelay, offTicks>>
clockVars  == <<millis, lastTouchTime, lastFrameTime, uptime, touchAt,
                frameAt>>
iterVars   == <<itTouched, itStops, itRedraw, itApplied, itTook, itDiffers>>
histVars   == <<published, unread, seenDiff, incidentsDown>>
loopVars   == <<pc, applyVars, modelVars, saverVars, widgetVars, iterVars,
                rainVars, clockVars>>
vars       == <<sharedVars, taskVars, loopVars, histVars>>

\* ------------------------------------------------- the component loop body
\* lines 1054-1063: severity of one retained component
SeverityAllowDowngrade(res, status) ==
    IF status = Major
    THEN [res EXCEPT !.allOperational = FALSE, !.worstSeverity = 2]
    ELSE IF status = Degraded \/ status = Partial
    THEN [res EXCEPT !.allOperational = FALSE, !.worstSeverity = 1]
    ELSE IF status # Operational
    THEN [res EXCEPT !.allOperational = FALSE]
    ELSE res

ClassifyKeepsFlag(res, status) ==
    IF status = Major
    THEN [res EXCEPT !.allOperational = FALSE, !.worstSeverity = 2]
    ELSE IF status = Degraded \/ status = Partial
    THEN [res EXCEPT !.worstSeverity = IF @ < 1 THEN 1 ELSE @]
    ELSE IF status # Operational
    THEN [res EXCEPT !.allOperational = FALSE]
    ELSE res

Classify(res, status) ==
    IF status = Major
    THEN [res EXCEPT !.allOperational = FALSE, !.worstSeverity = 2]
    ELSE IF status = Degraded \/ status = Partial
    THEN [res EXCEPT !.allOperational = FALSE,
                     !.worstSeverity = IF @ < 1 THEN 1 ELSE @]
    ELSE IF status # Operational
    THEN [res EXCEPT !.allOperational = FALSE]
    ELSE res

\* lines 1049-1052: the task's change flag, against prevStatus as it reads it
DetectAgainstSlot(res, status, prev) ==
    LET idx == Len(res.components)
        old == IF idx < fetchResult.componentCount
               THEN fetchResult.components[idx + 1].status ELSE ""
    IN  [res EXCEPT !.statusChanged = @ \/ (old # status)]

DetectChange(res, status, prev) ==
    LET idx == Len(res.components)
    IN  [res EXCEPT !.statusChanged = @ \/ (prev[idx + 1] # status)]

\* lines 1039-1065: one iteration of the loop over the feed, idx = the number
\* of components retained so far
ParseEntryKeepsHidden(res, comp, prev) ==
    IF HasVisitPrefix(comp.name) THEN res
    ELSE LET r1 == DetectChange(res, comp.status, prev)
             r2 == [r1 EXCEPT !.components =
                        Append(@, [name |-> comp.name, status |-> comp.status])]
         IN  Classify(r2, comp.status)

ParseEntry(res, comp, prev) ==
    IF comp.only_show_if_degraded THEN res
    ELSE IF HasVisitPrefix(comp.name) THEN res
    ELSE LET r1 == DetectChange(res, comp.status, prev)
             r2 == [r1 EXCEPT !.components =
                        Append(@, [name |-> comp.name, status |-> comp.status])]
         IN  Classify(r2, comp.status)

\* lines 1109-1112
FactorIncidents(res) ==
    IF res.hasIncidents /\ res.worstSeverity < 1
    THEN [res EXCEPT !.worstSeverity = 1]
    ELSE res

\* the incidents fetch ends "failed" (GET or parse), "empty" or "unresolved"
IncidentsOutcomes == {"failed", "empty", "unresolved"}

\* the outcomes of an incidents fetch that got an answer
IncidentsAnswers == {"empty", "unresolved"}

\* a failed incidents fetch counted as an incident
IncidentsFoundOrFailed(outcome) == outcome # "empty"

\* lines 1096-1104: hasIncidents stays false unless the GET returned
\* HTTP_CODE_OK, the body parsed and the array is not empty
IncidentsFound(outcome) == outcome = "unresolved"

\* ------------------------------------------------ fetchTaskFunc (Core 0)
\* lines 996-998 and 1010-1016: the delay ends and the task reads
\* WiFi.status(); with the link up it zeroes its local res
PollerWake(maxUnread, links) ==
    /\ ppc = "sleep"
    /\ doc' = doc
    /\ lastDelay' = REFRESH_INTERVAL
    /\ unread < maxUnread
    /\ \E connected \in links :
          IF connected
          THEN /\ pres' = FreshResult
               /\ ppc' = "get"
          ELSE /\ pres' = pres
               /\ ppc' = "take_wifi"
    /\ UNCHANGED <<sharedVars, feed, loopVars, histVars>>

\* lines 1020-1033 and 1077-1085: GET of the components feed and its parse
PollerGet(feeds, codes, parseErrors) ==
    /\ ppc = "get"
    /\ lastDelay' = lastDelay
    /\ \E httpCode \in codes :
          IF httpCode = HTTP_CODE_OK
          THEN \E err \in parseErrors :
                  IF ~err
                  THEN \E f \in feeds :
                          /\ feed' = f
                          /\ doc' = f
                          /\ pres' = pres
                          /\ ppc' = "parse"
                  ELSE /\ pres' = [pres EXCEPT !.statusBarText = TextJson]
                       /\ feed' = <<>>
                       /\ doc' = <<>>
                       /\ ppc' = "incidents"
          ELSE /\ pres' = [pres EXCEPT !.statusBarText = TextHttp(httpCode)]
               /\ feed' = <<>>
               /\ doc' = <<>>
               /\ ppc' = "incidents"
    /\ UNCHANGED <<sharedVars, loopVars, histVars>>

\* a component loop without the break at MAX_COMPONENTS
PollerParseNoLimit ==
    /\ ppc = "parse"
    /\ doc' = doc
    /\ lastDelay' = lastDelay
    /\ feed # <<>>
    /\ pres' = ParseEntry(pres, Head(feed), prevStatus)
    /\ feed' = Tail(feed)
    /\ seenDiff' = seenDiff
    /\ incidentsDown' = incidentsDown
    /\ UNCHANGED <<sharedVars, ppc, loopVars, published, unread>>

\* lines 1036-1066: one component of the feed; prevStatus is read without the
\* mutex, at the moment this entry is reached
PollerParse ==
    /\ ppc = "parse"
    /\ doc' = doc
    /\ lastDelay' = lastDelay
    /\ feed # <<>>
    /\ Len(pres.components) < MAX_COMPONENTS
    /\ pres' = ParseEntry(pres, Head(feed), prevStatus)
    /\ feed' = Tail(feed)
    /\ LET n == Len(pres'.components)
       IN  seenDiff' = IF n > Len(pres.components)
                       THEN seenDiff \/ prevStatus[n] # pres'.components[n].status
                       ELSE seenDiff
    /\ incidentsDown' = incidentsDown
    /\ UNCHANGED <<sharedVars, ppc, loopVars, published, unread>>

\* a task that records the statuses it parsed in prevStatus itself
PollerParseEndRecords(timeOutcomes) ==
    /\ ppc = "parse"
    /\ lastDelay' = lastDelay
    /\ feed = <<>> \/ Len(pres.components) >= MAX_COMPONENTS
    /\ \E gotTime \in timeOutcomes :
          pres' = [pres EXCEPT !.componentCount = Len(pres.components),
                               !.valid = TRUE,
                               !.statusBarText = IF gotTime THEN TextUpdatedAt
                                                 ELSE TextUpdated]
    /\ prevStatus' = [i \in 1..MAX_COMPONENTS |->
                         IF i <= Len(pres.components)
                         THEN pres.components[i].status ELSE prevStatus[i]]
    /\ feed' = <<>>
    /\ doc' = <<>>
    /\ ppc' = "incidents"
    /\ UNCHANGED <<fetchMutex, fetchResult, newDataReady, loopVars, histVars>>

\* lines 1037 and 1067-1076: the loop ends (feed exhausted, or idx reached
\* MAX_COMPONENTS); count, valid and the time text are set
PollerParseEnd(timeOutcomes) ==
    /\ ppc = "parse"
    /\ lastDelay' = lastDelay
    /\ feed = <<>> \/ Len(pres.components) >= MAX_COMPONENTS
    /\ \E gotTime \in timeOutcomes :
          pres' = [pres EXCEPT !.componentCount = Len(pres.components),
                               !.valid = TRUE,
                               !.statusBarText = IF gotTime THEN TextUpdatedAt
                                                 ELSE TextUpdated]
    /\ feed' = <<>>
    /\ doc' = <<>>
    /\ ppc' = "incidents"
    /\ UNCHANGED <<sharedVars, loopVars, histVars>>

\* lines 1088-1112: the incidents feed; a failed GET or parse leaves
\* hasIncidents false
PollerIncidents(outcomes) ==
    /\ ppc = "incidents"
    /\ doc' = doc
    /\ lastDelay' = lastDelay
    /\ \E outcome \in outcomes :
          /\ pres' = FactorIncidents(
                         [pres EXCEPT !.hasIncidents = IncidentsFound(outcome)])
          /\ incidentsDown' = (outcome = "failed")
    /\ ppc' = "take_pub"
    /\ UNCHANGED <<sharedVars, feed, loopVars, published, unread, seenDiff>>

\* a task that takes the mutex before it fetches
PollerTakeEarly ==
    /\ ppc \in {"get", "take_wifi", "take_pub"}
    /\ doc' = doc
    /\ lastDelay' = lastDelay
    /\ fetchMutex = "none"
    /\ fetchMutex' = "task"
    /\ ppc' = IF ppc = "take_pub" THEN "write_pub"
              ELSE IF ppc = "take_wifi" THEN "write_wifi" ELSE "get"
    /\ UNCHANGED <<fetchResult, newDataReady, prevStatus, pres, feed,
                   loopVars, histVars>>

\* lines 1000 and 1115: xSemaphoreTake succeeds
PollerTake ==
    /\ ppc \in {"take_wifi", "take_pub"}
    /\ doc' = doc
    /\ lastDelay' = lastDelay
    /\ fetchMutex = "none"
    /\ fetchMutex' = "task"
    /\ ppc' = IF ppc = "take_wifi" THEN "write_wifi" ELSE "write_pub"
    /\ UNCHANGED <<fetchResult, newDataReady, prevStatus, pres, feed,
                   loopVars, histVars>>

\* a task that writes its result although the wait expired
PollerTimeoutPublishes ==
    /\ ppc \in {"take_wifi", "take_pub"}
    /\ doc' = doc
    /\ lastDelay' = lastDelay
    /\ fetchMutex = "loop"
    /\ fetchResult' = pres
    /\ newDataReady' = TRUE
    /\ ppc' = "skipped"
    /\ UNCHANGED <<fetchMutex, prevStatus, pres, feed, loopVars, histVars>>

\* lines 1000/1006 and 1115/1120: the bounded wait (100 ms, 200 ms) expires
\* with the mutex still held by the loop; the cycle ends without a publish
PollerTakeTimeout ==
    /\ ppc \in {"take_wifi", "take_pub"}
    /\ doc' = doc
    /\ lastDelay' = lastDelay
    /\ fetchMutex = "loop"
    /\ ppc' = "skipped"
    /\ UNCHANGED <<sharedVars, pres, feed, loopVars, histVars>>

\* a task that fetches again at once when it could not publish
PollerSkipRetries ==
    /\ ppc = "skipped"
    /\ doc' = doc
    /\ lastDelay' = lastDelay
    /\ ppc' = "get"
    /\ pres' = FreshResult
    /\ seenDiff' = FALSE
    /\ incidentsDown' = FALSE
    /\ UNCHANGED <<sharedVars, feed, loopVars, published, unread>>

\* lines 1006 and 1121: with nothing published, back to the delay
PollerSkip ==
    /\ ppc = "skipped"
    /\ doc' = doc
    /\ lastDelay' = lastDelay
    /\ ppc' = "sleep"
    /\ pres' = ZeroResult
    /\ seenDiff' = FALSE
    /\ incidentsDown' = FALSE
    /\ UNCHANGED <<sharedVars, feed, loopVars, published, unread>>

\* a WiFi-down result that is a whole zeroed FetchResult
PollerWriteWifiZeroes ==
    /\ ppc = "write_wifi"
    /\ doc' = doc
    /\ lastDelay' = lastDelay
    /\ fetchResult' = [ZeroResult EXCEPT !.statusBarText = TextWifi]
    /\ newDataReady' = TRUE
    /\ published' = fetchResult'
    /\ unread' = unread + 1
    /\ ppc' = "give"
    /\ UNCHANGED <<fetchMutex, prevStatus, pres, feed, loopVars, seenDiff,
                   incidentsDown>>

\* lines 1001-1003: the WiFi-down result, written into the slot field by field
PollerWriteWifi ==
    /\ ppc = "write_wifi"
    /\ doc' = doc
    /\ lastDelay' = lastDelay
    /\ fetchResult' = [fetchResult EXCEPT !.valid = FALSE,
                                          !.statusBarText = TextWifi]
    /\ newDataReady' = TRUE
    /\ published' = fetchResult'
    /\ unread' = unread + 1
    /\ ppc' = "give"
    /\ UNCHANGED <<fetchMutex, prevStatus, pres, feed, loopVars, seenDiff,
                   incidentsDown>>

\* a task that does not overwrite a result the loop has not read yet
PollerWriteKeepUnread ==
    /\ ppc = "write_pub"
    /\ doc' = doc
    /\ lastDelay' = lastDelay
    /\ fetchResult' = IF newDataReady THEN fetchResult ELSE pres
    /\ newDataReady' = TRUE
    /\ published' = pres
    /\ unread' = unread + 1
    /\ ppc' = "give"
    /\ UNCHANGED <<fetchMutex, prevStatus, pres, feed, loopVars, seenDiff,
                   incidentsDown>>

\* a publish that stops halfway through the struct: the flags and the
\* components of this cycle over the severity, incidents and text the slot
\* held
PollerWriteTorn ==
    /\ ppc = "write_pub"
    /\ doc' = doc
    /\ lastDelay' = lastDelay
    /\ fetchResult' = [fetchResult EXCEPT
                           !.valid = pres.valid,
                           !.statusChanged = pres.statusChanged,
                           !.allOperational = pres.allOperational,
                           !.componentCount = pres.componentCount,
                           !.components = pres.components]
    /\ newDataReady' = TRUE
    /\ published' = pres
    /\ unread' = unread + 1
    /\ ppc' = "give"
    /\ UNCHANGED <<fetchMutex, prevStatus, pres, feed, loopVars, seenDiff,
                   incidentsDown>>

\* lines 1116-1117
PollerWritePub ==
    /\ ppc = "write_pub"
    /\ doc' = doc
    /\ lastDelay' = lastDelay
    /\ fetchResult' = pres
    /\ newDataReady' = TRUE
    /\ published' = pres
    /\ unread' = unread + 1
    /\ ppc' = "give"
    /\ UNCHANGED <<fetchMutex, prevStatus, pres, feed, loopVars, seenDiff,
                   incidentsDown>>

\* lines 1004 and 1118: xSemaphoreGive, then back to the delay; res goes out
\* of scope
PollerGive ==
    /\ ppc = "give"
    /\ doc' = doc
    /\ lastDelay' = lastDelay
    /\ fetchMutex' = "none"
    /\ ppc' = "sleep"
    /\ pres' = ZeroResult
    /\ seenDiff' = FALSE
    /\ incidentsDown' = FALSE
    /\ UNCHANGED <<fetchResult, newDataReady, prevStatus, feed, loopVars,
                   published, unread>>

\* ------------------------------------------------------ loop() (Core 1)
\* lines 950-961: updateStatusBanner, from the globals it is given
BannerOf(allOp, incidents, severity) ==
    IF allOp /\ ~incidents THEN "green"
    ELSE IF severity >= 2 THEN "red"
    ELSE "orange"

\* line 1167: the exit test of applyFetchResults
ExitNever(changed, incidentChanged, active) == FALSE

ExitOnApply(changed, incidentChanged, active) ==
    (changed \/ incidentChanged) /\ active

\* a stop that leaves the status bar as the screensaver found it
TextKeptAtStop(cached, shown) == shown

\* line 862: matrixStopScreensaver restores the cached status text
TextAfterStop(cached, shown) == cached

\* a stop that leaves the strip sprite allocated
SpriteKeptAtStop(sprite) == sprite

\* lines 854-858: matrixStopScreensaver deletes the strip sprite if there is
\* one and nulls the pointer
SpriteAfterStop(sprite) == FALSE

\* lines 840-844: matrixStartScreensaver allocates the strip sprite unless
\* there is one
SpriteAfterStart(sprite) == TRUE

\* a touch that always runs matrixStopScreensaver
TouchStopsAlways(touched, active) == touched

\* lines 1464-1468: a touch stops the screensaver only when it is active
TouchStops(touched, active) == touched /\ active

\* lines 1458-1473, with matrixStopScreensaver (851-869) on a touch while
\* active: ui.update(), the touch sample and the unlocked read of
\* newDataReady.  The clock has moved by at most one tick since the last
\* iteration; the UIManager's sleep state is whatever ui.update() made it.
FgBegin(ticks, sleeps, touches) ==
    /\ pc = "begin"
    /\ UNCHANGED <<rainVars, statusLabels, clockVars>>
    /\ \E dt \in ticks, touched \in touches :
          /\ itTouched' = touched
          /\ touchElapsed' = IF touched THEN 0
                             ELSE IF touchElapsed + dt > IdleTicks
                             THEN IdleTicks ELSE touchElapsed + dt
          /\ IF TouchStops(touched, screensaverActive)
             THEN /\ screensaverActive' = FALSE
                  /\ colSprite' = SpriteAfterStop(colSprite)
                  /\ frameDue' = FALSE
                  /\ statusBanner' = BannerOf(allOperational,
                                              hasUnresolvedIncidents,
                                              matrixSeverity)
                  /\ statusBarRight' = TextAfterStop(cachedStatusText,
                                                     statusBarRight)
                  /\ itStops' = itStops + 1
                  /\ itRedraw' = TRUE
             ELSE /\ \E due \in {frameDue, screensaverActive} : frameDue' = due
                  /\ UNCHANGED <<screensaverActive, colSprite, statusBanner,
                                 statusBarRight, itStops, itRedraw>>
    /\ \E asleep \in sleeps : screenAsleep' = asleep
    /\ pc' = IF newDataReady THEN "take" ELSE "idle"
    /\ UNCHANGED <<sharedVars, taskVars, applyVars, modelVars, itApplied,
                   itTook, itDiffers, histVars>>

\* a loop whose wait for the mutex expires although the mutex is free
FgTakeGivesUp ==
    /\ pc = "take"
    /\ UNCHANGED <<rainVars, clockVars>>
    /\ fetchMutex = "none"
    /\ itApplied' = "timeout"
    /\ pc' = "idle"
    /\ UNCHANGED <<sharedVars, taskVars, applyVars, modelVars, saverVars,
                   widgetVars, itTouched, itStops, itRedraw, itTook,
                   itDiffers, histVars>>

\* line 1130: xSemaphoreTake succeeds
FgTake ==
    /\ pc = "take"
    /\ UNCHANGED <<rainVars, clockVars>>
    /\ fetchMutex = "none"
    /\ fetchMutex' = "loop"
    /\ pc' = "copy"
    /\ UNCHANGED <<fetchResult, newDataReady, prevStatus, taskVars, applyVars,
                   modelVars, saverVars, widgetVars, iterVars, histVars>>

\* a loop that clears the flag although it could not copy
FgTimeoutClearsFlag ==
    /\ pc = "take"
    /\ UNCHANGED <<rainVars, clockVars>>
    /\ fetchMutex = "task"
    /\ newDataReady' = FALSE
    /\ itApplied' = "timeout"
    /\ pc' = "idle"
    /\ UNCHANGED <<fetchMutex, fetchResult, prevStatus, taskVars, applyVars,
                   modelVars, saverVars, widgetVars, itTouched, itStops,
                   itRedraw, itTook, itDiffers, histVars>>

\* line 1130: the 50 ms wait expires with the mutex held by the task;
\* applyFetchResults returns
FgTakeTimeout ==
    /\ pc = "take"
    /\ UNCHANGED <<rainVars, clockVars>>
    /\ fetchMutex = "task"
    /\ itApplied' = "timeout"
    /\ pc' = "idle"
    /\ UNCHANGED <<sharedVars, taskVars, applyVars, modelVars, saverVars,
                   widgetVars, itTouched, itStops, itRedraw, itTook,
                   itDiffers, histVars>>

\* some component of result r differs from the table prev
Differs(r, prev) ==
    \E i \in 1..r.componentCount : prev[i] # r.components[i].status

\* lines 1131-1132: copy-out and clearing of the flag, under the mutex
FgCopy ==
    /\ pc = "copy"
    /\ UNCHANGED <<rainVars, clockVars>>
    /\ fres' = fetchResult
    /\ newDataReady' = FALSE
    /\ unread' = 0
    /\ itTook' = unread
    /\ itDiffers' = (fetchResult.valid /\ Differs(fetchResult, prevStatus))
    /\ pc' = "give"
    /\ UNCHANGED <<fetchMutex, fetchResult, prevStatus, taskVars, fi,
                   statusChanged, modelVars, saverVars, widgetVars, itTouched,
                   itStops, itRedraw, itApplied, published, seenDiff,
                   incidentsDown>>

\* a loop that goes on to the widgets with the mutex still taken
FgGiveKeepsLock ==
    /\ pc = "give"
    /\ UNCHANGED <<rainVars, clockVars>>
    /\ fetchMutex' = fetchMutex
    /\ itTook' = 0
    /\ pc' = "apply"
    /\ UNCHANGED <<fetchResult, newDataReady, prevStatus, taskVars, applyVars,
                   modelVars, saverVars, widgetVars, itTouched, itStops,
                   itRedraw, itApplied, itDiffers, histVars>>

\* line 1133
FgGive ==
    /\ pc = "give"
    /\ UNCHANGED <<rainVars, clockVars>>
    /\ fetchMutex' = "none"
    /\ itTook' = 0
    /\ pc' = "apply"
    /\ UNCHANGED <<fetchResult, newDataReady, prevStatus, taskVars, applyVars,
                   modelVars, saverVars, widgetVars, itTouched, itStops,
                   itRedraw, itApplied, itDiffers, histVars>>

\* widgets that are updated under the screensaver too
WidgetsAlways(active) == TRUE

\* lines 1140 and 1172: widgets are touched only when the screensaver is off
WidgetsVisible(active) == ~active

\* an apply that leaves the screensaver when the result is a failure
FgApplyErrorStops ==
    /\ pc = "apply"
    /\ UNCHANGED <<rainVars, statusLabels, clockVars>>
    /\ cachedStatusText' = fres.statusBarText
    /\ IF ~fres.valid
       THEN /\ itApplied' = "invalid"
            /\ statusBarRight' = fres.statusBarText
            /\ itRedraw' = TRUE
            /\ screensaverActive' = FALSE
            /\ colSprite' = SpriteAfterStop(colSprite)
            /\ touchElapsed' = 0
            /\ fres' = ZeroResult
            /\ pc' = "idle"
       ELSE /\ pc' = "prev"
            /\ UNCHANGED <<fres, statusBarRight, itRedraw, itApplied,
                           screensaverActive, colSprite, touchElapsed>>
    /\ statusChanged' = FALSE
    /\ fi' = 0
    /\ UNCHANGED <<sharedVars, taskVars, allOperational,
                   hasUnresolvedIncidents, matrixSeverity, frameDue,
                   screenAsleep, statusBanner, itTouched, itStops, itTook,
                   itDiffers, histVars>>

\* lines 1135-1149: the status text is cached; an invalid result only
\* reaches the status bar, and only when the dashboard is visible
FgApply ==
    /\ pc = "apply"
    /\ UNCHANGED <<rainVars, statusLabels, clockVars>>
    /\ cachedStatusText' = fres.statusBarText
    /\ IF ~fres.valid
       THEN /\ itApplied' = "invalid"
            /\ IF WidgetsVisible(screensaverActive)
               THEN /\ statusBarRight' = fres.statusBarText
                    /\ itRedraw' = TRUE
               ELSE UNCHANGED <<statusBarRight, itRedraw>>
            /\ fres' = ZeroResult
            /\ pc' = "idle"
       ELSE /\ pc' = "prev"
            /\ UNCHANGED <<fres, statusBarRight, itRedraw, itApplied>>
    /\ statusChanged' = FALSE
    /\ fi' = 0
    /\ UNCHANGED <<sharedVars, taskVars, allOperational,
                   hasUnresolvedIncidents, matrixSeverity, saverVars,
                   statusBanner, itTouched, itStops, itTook, itDiffers,
                   histVars>>

\* lines 1150-1152: index i compared; a differing entry starts the strncpy of
\* line 1153, during which the task may read a half-written string
FgPrev ==
    /\ pc = "prev"
    /\ UNCHANGED <<rainVars, clockVars>>
    /\ fi < fres.componentCount
    /\ IF prevStatus[fi + 1] # fres.components[fi + 1].status
       THEN /\ statusChanged' = TRUE
            /\ prevStatus' = [prevStatus EXCEPT ![fi + 1] = Torn]
            /\ pc' = "prev_write"
            /\ fi' = fi
       ELSE /\ fi' = fi + 1
            /\ UNCHANGED <<statusChanged, prevStatus, pc>>
    /\ UNCHANGED <<fetchMutex, fetchResult, newDataReady, taskVars, fres,
                   modelVars, saverVars, widgetVars, iterVars, histVars>>

\* lines 1153-1154: the strncpy completes
FgPrevWrite ==
    /\ pc = "prev_write"
    /\ UNCHANGED <<rainVars, clockVars>>
    /\ prevStatus' = [prevStatus EXCEPT
                         ![fi + 1] = fres.components[fi + 1].status]
    /\ fi' = fi + 1
    /\ pc' = "prev"
    /\ UNCHANGED <<fetchMutex, fetchResult, newDataReady, taskVars, fres,
                   statusChanged, modelVars, saverVars, widgetVars, iterVars,
                   histVars>>

\* health fields that follow the result only while the dashboard is shown
AppliedModelIfVisible(res, active, old) ==
    IF active THEN old
    ELSE [allOperational |-> res.allOperational,
          hasUnresolvedIncidents |-> res.hasIncidents,
          matrixSeverity |-> res.worstSeverity]

\* lines 1162-1164: the health fields after a valid result, whatever the
\* screen shows
AppliedModel(res, active, old) ==
    [allOperational |-> res.allOperational,
     hasUnresolvedIncidents |-> res.hasIncidents,
     matrixSeverity |-> res.worstSeverity]

\* a stop that leaves lastTouchTime alone
ElapsedKeptAtStop(elapsed) == elapsed

\* line 868: matrixStopScreensaver ends with lastTouchTime = millis()
ElapsedAfterStop(elapsed) == 0

\* lines 974-980: the text a status label shows for a component status
statusDisplayText(status) ==
    IF status = Operational THEN "Operational"
    ELSE IF status = Degraded THEN "Degraded Performance"
    ELSE IF status = Partial THEN "Partial Outage"
    ELSE IF status = Major THEN "Major Outage"
    ELSE "Unknown"

\* the rows keep the text they had
LabelsUnwritten(labels, res) == labels

\* lines 1173-1177: the status label of every row below res.componentCount
LabelsAfter(labels, res) ==
    [i \in 1..MAX_COMPONENTS |->
        IF i <= res.componentCount
        THEN statusDisplayText(res.components[i].status)
        ELSE labels[i]]

\* lines 1158-1188: globals, the exit test with matrixStopScreensaver
\* (851-869), and the widgets when the dashboard is visible
FgFinish ==
    /\ pc = "prev"
    /\ UNCHANGED <<rainVars, clockVars>>
    /\ fi >= fres.componentCount
    /\ LET incidentChanged == (hasUnresolvedIncidents # fres.hasIncidents)
           exit == ExitOnApply(statusChanged, incidentChanged,
                               screensaverActive)
           visible == exit \/ WidgetsVisible(screensaverActive)
           model == AppliedModel(fres, screensaverActive,
                        [allOperational |-> allOperational,
                         hasUnresolvedIncidents |-> hasUnresolvedIncidents,
                         matrixSeverity |-> matrixSeverity])
       IN  /\ allOperational' = model.allOperational
           /\ hasUnresolvedIncidents' = model.hasUnresolvedIncidents
           /\ matrixSeverity' = model.matrixSeverity
           /\ IF exit
              THEN /\ screensaverActive' = FALSE
                   /\ colSprite' = SpriteAfterStop(colSprite)
                   /\ frameDue' = FALSE
                   /\ touchElapsed' = ElapsedAfterStop(touchElapsed)
                   /\ itStops' = itStops + 1
              ELSE UNCHANGED <<screensaverActive, colSprite, frameDue,
                               touchElapsed, itStops>>
           /\ IF visible
              THEN /\ statusBanner' = BannerOf(model.allOperational,
                                               model.hasUnresolvedIncidents,
                                               model.matrixSeverity)
                   /\ statusBarRight' = cachedStatusText
                   /\ statusLabels' = LabelsAfter(statusLabels, fres)
                   /\ itRedraw' = TRUE
              ELSE UNCHANGED <<statusBanner, statusBarRight, statusLabels,
                               itRedraw>>
    /\ itApplied' = "valid"
    /\ fres' = ZeroResult
    /\ fi' = 0
    /\ statusChanged' = FALSE
    /\ pc' = "idle"
    /\ UNCHANGED <<sharedVars, taskVars, cachedStatusText, screenAsleep,
                   itTouched, itTook, itDiffers, histVars>>

\* ---------------------------------------------------------- the matrix rain
\* random(lo, hi) with hi among its values
RandomInclusive(lo, hi) == lo..hi

\* random(lo, hi): an integer from lo to hi - 1
Random(lo, hi) == lo..(hi - 1)

\* draws followed: the least and the greatest value of a range, or the least
Sampled(S) == {x \in S : (\A y \in S : x <= y) \/ (\A y \in S : x >= y)}

Least(S) == {x \in S : \A y \in S : x <= y}

\* the values of a range followed: both ends, or the least
Followed(S, ends) == IF ends THEN Sampled(S) ELSE Least(S)

\* the values followed for each call of random() in the rain
DrawsOf(ends) ==
    [initHead |-> Followed(Random(0, screenH), ends),
     head     |-> Followed(Random(0, MATRIX_CHAR_H * 4), ends),
     speed    |-> Followed(Random(14, 26), ends),
     length   |-> Followed(Random(8, 24), ends),
     delay    |-> Followed(Random(5, 40), ends)]

\* randomGlyphIndex(), line 790: MGLYPH_COUNT is not in the sources; one
\* glyph other than the zero of memset is followed
GlyphDraws == {1}

\* C integer division, which truncates toward zero
TruncDiv(a, b) == IF a >= 0 THEN a \div b ELSE -((-a) \div b)

\* lines 874-875, 825: numCols and numRows
ColsOn(w) ==
    IF w \div MATRIX_CHAR_W < MATRIX_MAX_COLS THEN w \div MATRIX_CHAR_W
    ELSE MATRIX_MAX_COLS

RowsOn(h) == h \div MATRIX_CHAR_H

\* a MatrixColumn of the zero-initialised array
ZeroColumn ==
    [headY |-> 0, speed |-> 0, length |-> 0, active |-> FALSE, spawnDelay |-> 0]

\* lines 826-832: the columns matrixInit may leave
InitColumns(draws) ==
    {[headY |-> -h, speed |-> s, length |-> l, active |-> TRUE, spawnDelay |-> 0] :
        h \in draws.initHead, s \in draws.speed, l \in draws.length}

\* a countdown that starts the column again in the tick that takes the delay
\* to zero
RespawnedAtZero(col, draws) ==
    IF col.active THEN {col}
    ELSE IF col.spawnDelay > 1 THEN {[col EXCEPT !.spawnDelay = @ - 1]}
    ELSE {[col EXCEPT !.headY = -h, !.speed = s, !.length = l, !.active = TRUE,
                      !.spawnDelay = 0] :
             h \in draws.head, s \in draws.speed, l \in draws.length}

\* lines 879-889: an inactive column counts its delay down, and at zero
\* starts again from above the screen
Respawned(col, draws) ==
    IF col.active THEN {col}
    ELSE IF col.spawnDelay > 0 THEN {[col EXCEPT !.spawnDelay = @ - 1]}
    ELSE {[col EXCEPT !.headY = -h, !.speed = s, !.length = l, !.active = TRUE] :
             h \in draws.head, s \in draws.speed, l \in draws.length}

\* a head that falls three times its speed in a tick
AdvancedFast(col, draws) ==
    IF ~col.active THEN {col}
    ELSE LET moved == [col EXCEPT !.headY = @ + 3 * col.speed]
         IN  IF moved.headY - moved.length * MATRIX_CHAR_H > screenH
             THEN {[moved EXCEPT !.active = FALSE, !.spawnDelay = d] :
                      d \in draws.delay}
             ELSE {moved}

\* lines 890-896: an active column moves down by its speed, and is retired
\* with a delay once its whole trail is below the screen
Advanced(col, draws) ==
    IF ~col.active THEN {col}
    ELSE LET moved == [col EXCEPT !.headY = @ + col.speed]
         IN  IF moved.headY - moved.length * MATRIX_CHAR_H > screenH
             THEN {[moved EXCEPT !.active = FALSE, !.spawnDelay = d] :
                      d \in draws.delay}
             ELSE {moved}

\* lines 877-897: one column after the update loop
ColumnAfter(col, draws) ==
    UNION {Advanced(c, draws) : c \in Respawned(col, draws)}

\* line 904: distFromHead of the cell in row (rows counted from 1)
DistFromHead(col, row) ==
    TruncDiv(col.headY - (row - 1) * MATRIX_CHAR_H, MATRIX_CHAR_H)

\* line 906: the cell is inside the active trail
InTrail(col, row) ==
    /\ col.active
    /\ DistFromHead(col, row) >= 0
    /\ DistFromHead(col, row) < col.length

\* lines 744-749: brightness in hundredths at distances up to 2, and as the
\* fraction <<numerator, denominator>> floored at 0.08 beyond
TrailChannel(full, dist, len) ==
    IF dist <= 2 THEN (full * (100 - 15 * dist)) \div 100
    ELSE IF (len - dist) * 100 < 8 * len THEN (full * 8) \div 100
    ELSE (full * (len - dist)) \div len

\* lines 751-767: the r, g, b of a trail cell for the severity shown
matrixTrailColor(dist, len, severity) ==
    IF severity = 2
    THEN [r |-> TrailChannel(255, dist, len), g |-> TrailChannel(40, dist, len),
          b |-> TrailChannel(30, dist, len)]
    ELSE IF severity = 1
    THEN [r |-> TrailChannel(255, dist, len), g |-> TrailChannel(150, dist, len),
          b |-> 0]
    ELSE [r |-> 0, g |-> TrailChannel(255, dist, len), b |-> 0]

\* LGFX color565: 5 bits of red, 6 of green, 5 of blue
color565(c) == (c.r \div 8) * 2048 + (c.g \div 4) * 32 + (c.b \div 8)

\* a fade that subtracts from the whole word
FadedWord(c) == IF c > 2114 THEN c - 2114 ELSE 0

\* lines 927-934: every channel of a cell outside the trail steps toward 0
Faded(c) ==
    LET r == (c \div 2048) % 32
        g == (c \div 32) % 64
        b == c % 32
        r2 == IF r > 2 THEN r - 2 ELSE 0
        g2 == IF g > 4 THEN g - 4 ELSE 0
        b2 == IF b > 2 THEN b - 2 ELSE 0
    IN  r2 * 2048 + g2 * 32 + b2

\* lines 906-936: the colour of a cell after the frame
ColorAfter(col, row, old, severity) ==
    IF InTrail(col, row)
    THEN IF DistFromHead(col, row) = 0 THEN 65535
         ELSE color565(matrixTrailColor(DistFromHead(col, row), col.length,
                                        severity))
    ELSE IF old # 0 THEN Faded(old) ELSE old

\* lines 907-921: the glyphs a cell may show after the frame
GlyphsAfter(col, row, old) ==
    IF InTrail(col, row)
    THEN IF DistFromHead(col, row) = 0 THEN GlyphDraws
         ELSE {old} \cup GlyphDraws
    ELSE {old}

\* a matrixInit that leaves the cell arrays as they are
matrixInitKeepsCells(draws) ==
    /\ matrixCols' \in [1..ColsOn(screenW) -> InitColumns(draws)]
    /\ UNCHANGED <<matrixGlyphIdx, matrixColors>>

\* lines 824-835: every on-screen column drawn afresh, both cell arrays zeroed
matrixInit(draws) ==
    /\ matrixCols' \in [1..ColsOn(screenW) -> InitColumns(draws)]
    /\ matrixGlyphIdx' = [i \in 1..ColsOn(screenW) |->
                             [row \in 1..RowsOn(screenH) |-> 0]]
    /\ matrixColors' = [i \in 1..ColsOn(screenW) |->
                           [row \in 1..RowsOn(screenH) |-> 0]]

\* lines 871-945: one animation tick
matrixDrawFrame(draws) ==
    /\ matrixCols' \in [1..ColsOn(screenW) ->
                           UNION {ColumnAfter(matrixCols[i], draws) :
                                     i \in 1..ColsOn(screenW)}]
    /\ \A i \in 1..ColsOn(screenW) :
           matrixCols'[i] \in ColumnAfter(matrixCols[i], draws)
    /\ matrixColors' =
           [i \in 1..ColsOn(screenW) |->
               [row \in 1..RowsOn(screenH) |->
                   ColorAfter(matrixCols'[i], row, matrixColors[i][row],
                              matrixSeverity)]]
    /\ matrixGlyphIdx' \in [1..ColsOn(screenW) ->
                               [1..RowsOn(screenH) -> GlyphDraws \cup {0}]]
    /\ \A i \in 1..ColsOn(screenW), row \in 1..RowsOn(screenH) :
           matrixGlyphIdx'[i][row] \in
               GlyphsAfter(matrixCols'[i], row, matrixGlyphIdx[i][row])

\* an activation test that forgets the display's sleep
StartsWhileAsleep ==
    ~screensaverActive /\ touchElapsed >= IdleTicks

\* an activation test that passes one tick short of the timeout
StartsEarly ==
    ~screensaverActive /\ ~screenAsleep /\ touchElapsed >= IdleTicks - 1

\* lines 1478-1479: the activation test
StartsScreensaver ==
    ~screensaverActive /\ ~screenAsleep /\ touchElapsed >= IdleTicks

\* some cell carries a glyph or a colour that matrixDrawFrame (899-936) put
\* there
HoldsRain ==
    \E i \in 1..ColsOn(screenW) : \E row \in 1..RowsOn(screenH) :
        matrixGlyphIdx[i][row] # 0 \/ matrixColors[i][row] # 0

\* an animation that keeps running behind a sleeping display
DrawsWhileAsleep ==
    screensaverActive /\ frameDue /\ colSprite

\* lines 1484-1485 and 872: the tests under which matrixDrawFrame draws; a
\* screensaver started in this iteration has just set lastFrameTime
DrawsFrame ==
    screensaverActive /\ ~screenAsleep /\ frameDue /\ colSprite

\* lines 893-895: the delay a column was retired with, while it is inactive
DelayOf(col, after, delay) ==
    IF after.active THEN 0
    ELSE IF col.active THEN after.spawnDelay
    ELSE delay

\* lines 879-882: the ticks a retired column has passed inactive
TicksOff(col, after, ticks, drawn) ==
    IF after.active \/ col.active THEN 0
    ELSE IF drawn THEN ticks + 1
    ELSE ticks

\* lines 1477-1491, with matrixStartScreensaver (837-849): the activation
\* test, the frame, then yield(); the iteration is over
FgIdle(draws) ==
    /\ pc = "idle"
    /\ IF StartsScreensaver
       THEN /\ screensaverActive' = TRUE
            /\ colSprite' = SpriteAfterStart(colSprite)
            /\ matrixInit(draws)
            /\ frameDue' = FALSE
       ELSE /\ frameDue' = IF DrawsFrame THEN FALSE ELSE frameDue
            /\ IF DrawsFrame THEN matrixDrawFrame(draws)
               ELSE UNCHANGED matrixVars
            /\ UNCHANGED <<screensaverActive, colSprite>>
    /\ itTouched' = FALSE
    /\ itStops' = 0
    /\ itRedraw' = FALSE
    /\ itApplied' = "none"
    /\ itTook' = 0
    /\ itDiffers' = FALSE
    /\ itWiped' = (StartsScreensaver /\ HoldsRain)
    /\ offDelay' = [i \in 1..ColsOn(screenW) |->
                       DelayOf(matrixCols[i], matrixCols'[i], offDelay[i])]
    /\ offTicks' = [i \in 1..ColsOn(screenW) |->
                       TicksOff(matrixCols[i], matrixCols'[i], offTicks[i],
                                DrawsFrame)]
    /\ screenAsleep' = FALSE
    /\ pc' = "begin"
    /\ UNCHANGED <<sharedVars, taskVars, applyVars, modelVars, touchElapsed,
                   widgetVars, histVars, screenW, screenH, clockVars>>

\* ------------------------------------------- setup(): the synchronous fetch
\* a startup fetch that leaves prevStatus as memset left it
SyncEntryNoRecord(st, comp) ==
    IF comp.only_show_if_degraded THEN st
    ELSE IF HasVisitPrefix(comp.name) THEN st
    ELSE LET s  == comp.status
             s1 == [st EXCEPT !.idx = @ + 1]
         IN  IF s = Major
             THEN [s1 EXCEPT !.allOperational = FALSE, !.worstSeverity = 2]
             ELSE IF s = Degraded \/ s = Partial
             THEN [s1 EXCEPT !.allOperational = FALSE,
                             !.worstSeverity = IF @ < 1 THEN 1 ELSE @]
             ELSE IF s # Operational
             THEN [s1 EXCEPT !.allOperational = FALSE]
             ELSE s1

\* lines 1233-1258: one component of the startup feed; st.idx is the source's
\* idx
SyncEntry(st, comp) ==
    IF comp.only_show_if_degraded THEN st
    ELSE IF HasVisitPrefix(comp.name) THEN st
    ELSE LET s  == comp.status
             s1 == [st EXCEPT !.prev[st.idx + 1] = s,
                              !.labels[st.idx + 1] = statusDisplayText(s),
                              !.idx = @ + 1]
         IN  IF s = Major
             THEN [s1 EXCEPT !.allOperational = FALSE, !.worstSeverity = 2]
             ELSE IF s = Degraded \/ s = Partial
             THEN [s1 EXCEPT !.allOperational = FALSE,
                             !.worstSeverity = IF @ < 1 THEN 1 ELSE @]
             ELSE IF s # Operational
             THEN [s1 EXCEPT !.allOperational = FALSE]
             ELSE s1

\* lines 1232-1259
RECURSIVE SyncLoop(_, _)
SyncLoop(st, f) ==
    IF f = <<>> \/ st.idx >= MAX_COMPONENTS THEN st
    ELSE SyncLoop(SyncEntry(st, Head(f)), Tail(f))

\* lines 1205-1298 and 1429: what fetchGitHubStatusSync leaves behind; fetched
\* tells whether the components GET and its parse succeeded
SyncFetch(fetched, f, incidents) ==
    LET st0 == [prev |-> EmptyPrev, labels |-> EmptyLabels, idx |-> 0,
                allOperational |-> TRUE, worstSeverity |-> 0]
        st  == IF fetched THEN SyncLoop(st0, f) ELSE st0
        sev == IF incidents /\ st.worstSeverity < 1 THEN 1 ELSE st.worstSeverity
    IN  [prev |-> st.prev, statusLabels |-> st.labels,
         allOperational |-> st.allOperational,
         matrixSeverity |-> sev, hasUnresolvedIncidents |-> incidents,
         cachedStatusText |-> IF fetched THEN TextUpdatedAt ELSE TextNone,
         statusBarRight |-> IF fetched THEN TextUpdatedAt
                            ELSE <<"Connecting to WiFi...", 0>>]

\* ------------------------------------------------------------- the inputs
HttpCodes == {HTTP_CODE_OK, 503}

AllStatuses == {Operational, Degraded, Partial, Major, Maintenance}

\* feeds of one component, as the dashboard and the channel see them
OneFeeds == {<<Comp(NameGit, Operational, FALSE)>>,
             <<Comp(NameGit, Major, FALSE)>>}

MainFeeds == {<<>>} \cup OneFeeds

\* feeds for the parse loop: every status, and entries the filter drops
FetchLen == 3

FetchEntries ==
    {Comp(NameGit, s, FALSE) : s \in AllStatuses}
        \cup {Comp(NameGit, Major, TRUE), Comp(NameVisit, Degraded, FALSE),
              Comp(NameVis, Operational, FALSE)}

FetchFeeds == UNION {[1..k -> FetchEntries] : k \in 0..FetchLen}

\* feeds for the failure paths: one component, and one component more than
\* the dashboard has rows, the second of them in major outage
ShortFeed == <<Comp(NameGit, Operational, FALSE)>>

LongFeed ==
    [i \in 1..(MAX_COMPONENTS + 1) |->
        Comp(NameGit, IF i = 2 THEN Major ELSE Operational, FALSE)]

ErrFeeds == {ShortFeed, LongFeed}

\* feeds for the filter: MAX_COMPONENTS + 3 entries with distinct names, one
\* of them flagged only_show_if_degraded (at h), one named "Visit ..." (at v),
\* the sixth of status s, the last in major outage
FeedDigits == <<"1", "2", "3", "4", "5", "6", "7", "8", "9", "10", "11",
                "12", "13", "14">>

FeedName(i) == <<"c", FeedDigits[i]>>

FilterFeed(h, v, s) ==
    [i \in 1..(MAX_COMPONENTS + 3) |->
        IF i = h THEN Comp(FeedName(i), Major, TRUE)
        ELSE IF i = v THEN Comp(NameVisit, Degraded, FALSE)
        ELSE IF i = 6 THEN Comp(FeedName(i), s, FALSE)
        ELSE IF i = MAX_COMPONENTS + 3 THEN Comp(FeedName(i), Major, FALSE)
        ELSE Comp(FeedName(i), Operational, FALSE)]

FilterFeeds ==
    {FilterFeed(h, v, s) : h \in {1, 3}, v \in {2, MAX_COMPONENTS + 2},
                           s \in {Operational, Degraded}}

\* the feed of a quiet day: MAX_COMPONENTS components, all operational
SteadyFeed ==
    [i \in 1..MAX_COMPONENTS |-> Comp(FeedName(i), Operational, FALSE)]

\* ------------------------------------------------- the millisecond clock
\* unsigned long has 32 bits on the ESP32; a value is kept as its two 16-bit
\* halves
Half == 65536

Limbs(n) == <<n \div Half, n % Half>>

\* a >= b of two unsigned long values
Geq32(a, b) == a[1] > b[1] \/ (a[1] = b[1] /\ a[2] >= b[2])

\* a + n modulo 2^32, for n below 2^31
Add32(a, n) ==
    LET lo == a[2] + (n % Half)
        hi == a[1] + (n \div Half) + (lo \div Half)
    IN  <<hi % Half, lo % Half>>

\* a difference that stops at 0 when the counter has wrapped past b
SubClamped32(a, b) ==
    IF Geq32(a, b)
    THEN LET lo == a[2] - b[2]
             hi == a[1] - b[1] - (IF lo < 0 THEN 1 ELSE 0)
         IN  <<hi, (lo + Half) % Half>>
    ELSE <<0, 0>>

\* a - b of two unsigned long values: the difference modulo 2^32
Sub32(a, b) ==
    LET lo == a[2] - b[2]
        hi == a[1] - b[1] - (IF lo < 0 THEN 1 ELSE 0)
    IN  <<(hi + Half) % Half, (lo + Half) % Half>>

\* line 1479: millis() - lastTouchTime >= SCREENSAVER_TIMEOUT
IdleElapsed ==
    Geq32(Sub32(millis, lastTouchTime), Limbs(SCREENSAVER_TIMEOUT))

\* line 1485: millis() - lastFrameTime >= MATRIX_FRAME_MS
FrameElapsed ==
    Geq32(Sub32(millis, lastFrameTime), Limbs(MATRIX_FRAME_MS))

\* dt milliseconds pass
ClockPass(steps) ==
    /\ \E dt \in steps :
           /\ uptime + dt <= ClockSpan
           /\ uptime' = uptime + dt
           /\ millis' = Add32(millis, dt)
    /\ UNCHANGED <<lastTouchTime, lastFrameTime, touchAt, frameAt>>
    /\ UNCHANGED <<sharedVars, taskVars, pc, applyVars, modelVars, saverVars,
                   widgetVars, iterVars, rainVars, histVars>>

\* lines 1465, 868: lastTouchTime = millis()
ClockTouch ==
    /\ lastTouchTime' = millis
    /\ touchAt' = uptime
    /\ UNCHANGED <<millis, lastFrameTime, uptime, frameAt>>
    /\ UNCHANGED <<sharedVars, taskVars, pc, applyVars, modelVars, saverVars,
                   widgetVars, iterVars, rainVars, histVars>>

\* lines 848, 1487: lastFrameTime = millis()
ClockFrame ==
    /\ lastFrameTime' = millis
    /\ frameAt' = uptime
    /\ UNCHANGED <<millis, lastTouchTime, uptime, touchAt>>
    /\ UNCHANGED <<sharedVars, taskVars, pc, applyVars, modelVars, saverVars,
                   widgetVars, iterVars, rainVars, histVars>>

\* ---------------------------------------------------------- specification
\* the state when setup() returns: the task created and in its first delay
InitAt(startFeeds, w, h, starts, lags) ==
    \E fetched \in BOOLEAN, incidents \in BOOLEAN, f \in startFeeds :
        LET s == SyncFetch(fetched, f, incidents)
        IN  /\ fetched \/ f = <<>>
            /\ \E start \in starts, lag \in lags :
                   /\ millis = start
                   /\ lastTouchTime = start
                   /\ lastFrameTime = Sub32(start, Limbs(lag))
                   /\ frameAt = -lag
            /\ uptime = 0
            /\ touchAt = 0
            /\ prevStatus = s.prev
            /\ allOperational = s.allOperational
            /\ matrixSeverity = s.matrixSeverity
            /\ hasUnresolvedIncidents = s.hasUnresolvedIncidents
            /\ cachedStatusText = s.cachedStatusText
            /\ statusBarRight = s.statusBarRight
            /\ statusLabels = s.statusLabels
            /\ statusBanner = BannerOf(s.allOperational,
                                       s.hasUnresolvedIncidents,
                                       s.matrixSeverity)
            /\ fetchMutex = "none"
            /\ fetchResult = ZeroResult
            /\ newDataReady = FALSE
            /\ ppc = "sleep"
            /\ pres = ZeroResult
            /\ feed = <<>>
            /\ lastDelay = 0
            /\ doc = <<>>
            /\ pc = "begin"
            /\ fres = ZeroResult
            /\ fi = 0
            /\ statusChanged = FALSE
            /\ screensaverActive = FALSE
            /\ colSprite = FALSE
            /\ touchElapsed = 0
            /\ frameDue = FALSE
            /\ screenAsleep = FALSE
            /\ screenW = w
            /\ screenH = h
            /\ matrixCols = [i \in 1..ColsOn(w) |-> ZeroColumn]
            /\ matrixGlyphIdx = [i \in 1..ColsOn(w) |->
                                    [row \in 1..RowsOn(h) |-> 0]]
            /\ matrixColors = [i \in 1..ColsOn(w) |->
                                  [row \in 1..RowsOn(h) |-> 0]]
            /\ published = ZeroResult
            /\ unread = 0
            /\ seenDiff = FALSE
            /\ incidentsDown = FALSE
            /\ itTook = 0
            /\ itDiffers = FALSE
            /\ itTouched = FALSE
            /\ itStops = 0
            /\ itRedraw = FALSE
            /\ itApplied = "none"
            /\ itWiped = FALSE
            /\ offDelay = [i \in 1..ColsOn(w) |-> 0]
            /\ offTicks = [i \in 1..ColsOn(w) |-> 0]

\* lines 703-704, 1433: the counter followed from the end of setup()
InitOn(startFeeds, w, h) == InitAt(startFeeds, w, h, {Limbs(0)}, {0})

\* on a display without room for a column the rain has nothing to move
InitWith(startFeeds) == InitOn(startFeeds, BlankW, RainH)

\* the dashboard and the screensaver, with the link up: touches, the idle
\* clock and the display's sleep all vary
Init == InitWith(OneFeeds)

Next ==
    \/ PollerWake(MaxPending, {TRUE})
    \/ PollerGet(OneFeeds, HttpCodes, {FALSE})
    \/ PollerParse
    \/ PollerParseEnd({TRUE})
    \/ PollerIncidents(IncidentsAnswers)
    \/ PollerTake
    \/ PollerTakeTimeout
    \/ PollerSkip
    \/ PollerWritePub
    \/ PollerGive
    \/ FgBegin({0, 1}, BOOLEAN, BOOLEAN)
    \/ FgTake
    \/ FgTakeTimeout
    \/ FgCopy
    \/ FgGive
    \/ FgApply
    \/ FgPrev
    \/ FgPrevWrite
    \/ FgFinish
    \/ FgIdle(DrawsOf(FALSE))

Spec == Init /\ [][Next]_vars

\* the channel between the task and the loop: every outcome of a poll cycle,
\* with the panel touched never and the idle clock stopped
InitChannel == InitWith(MainFeeds)

NextChannel ==
    \/ PollerWake(MaxPending, BOOLEAN)
    \/ PollerGet(MainFeeds, HttpCodes, {FALSE})
    \/ PollerParse
    \/ PollerParseEnd({TRUE})
    \/ PollerIncidents(IncidentsAnswers)
    \/ PollerTake
    \/ PollerTakeTimeout
    \/ PollerSkip
    \/ PollerWriteWifi
    \/ PollerWritePub
    \/ PollerGive
    \/ FgBegin({0}, {FALSE}, {FALSE})
    \/ FgTake
    \/ FgTakeTimeout
    \/ FgCopy
    \/ FgGive
    \/ FgApply
    \/ FgPrev
    \/ FgPrevWrite
    \/ FgFinish
    \/ FgIdle(DrawsOf(FALSE))

SpecChannel == InitChannel /\ [][NextChannel]_vars

\* one poll cycle of the task alone, over every feed of FetchFeeds
InitFetch == InitWith(MainFeeds)

NextFetch ==
    \/ PollerWake(1, BOOLEAN)
    \/ PollerGet(FetchFeeds, HttpCodes, BOOLEAN)
    \/ PollerParse
    \/ PollerParseEnd(BOOLEAN)
    \/ PollerIncidents(IncidentsOutcomes)
    \/ PollerTake
    \/ PollerWriteWifi
    \/ PollerWritePub
    \/ PollerGive

SpecFetch == InitFetch /\ [][NextFetch]_vars

\* the task alone, one cycle, on the long feeds with entries to skip
InitFilter == InitWith(MainFeeds)

NextFilter ==
    \/ PollerWake(1, {TRUE})
    \/ PollerGet(FilterFeeds, {HTTP_CODE_OK}, {FALSE})
    \/ PollerParse
    \/ PollerParseEnd(BOOLEAN)
    \/ PollerIncidents(IncidentsOutcomes)
    \/ PollerTake
    \/ PollerWritePub
    \/ PollerGive

SpecFilter == InitFilter /\ [][NextFilter]_vars

\* the quiet day: the startup fetch and every poll see SteadyFeed; incidents,
\* touches, the idle clock and the timing of the two cores vary; the strncpy
\* of line 1153 is never reached
InitSteady == InitWith({SteadyFeed})

NextSteady ==
    \/ PollerWake(1, {TRUE})
    \/ PollerGet({SteadyFeed}, {HTTP_CODE_OK}, {FALSE})
    \/ PollerParse
    \/ PollerParseEnd({TRUE})
    \/ PollerIncidents(IncidentsAnswers)
    \/ PollerTake
    \/ PollerTakeTimeout
    \/ PollerSkip
    \/ PollerWritePub
    \/ PollerGive
    \/ FgBegin({0, 1}, {FALSE}, BOOLEAN)
    \/ FgTake
    \/ FgTakeTimeout
    \/ FgCopy
    \/ FgGive
    \/ FgApply
    \/ FgPrev
    \/ FgFinish
    \/ FgIdle(DrawsOf(FALSE))

SpecSteady == InitSteady /\ [][NextSteady]_vars

\* the clock alone: the counter read first from 300003 ms before its wrap to
\* past it, the frame reference up to 33 ms older than the touch reference,
\* time passing in steps around a third of the idle timeout, and the two
\* references taken at any of the instants reached
ClockLeads == {0, 17, 100000, 200001, 299999, 300000, 300003}

ClockStarts ==
    {Sub32(Limbs(0), Limbs(k)) : k \in ClockLeads} \cup {Limbs(65536)}

ClockSteps == {99999, 100000, 100001}

FrameLags == {0, 32, 33}

InitClock == InitAt({ShortFeed}, BlankW, RainH, ClockStarts, FrameLags)

NextClock ==
    \/ ClockPass(ClockSteps)
    \/ ClockTouch
    \/ ClockFrame

SpecClock == InitClock /\ [][NextClock]_vars

\* the rain on a display of one column and two rows, under touches and the
\* display's sleep; the task has not published yet
InitRain == InitOn(OneFeeds, RainW, RainH)

NextRain ==
    \/ FgBegin({0, 1}, BOOLEAN, BOOLEAN)
    \/ FgIdle(DrawsOf(TRUE))

SpecRain == InitRain /\ [][NextRain]_vars

\* the rain under the poller: one column of two rows, polls that succeed
\* with a status that may differ from the one before, touches and the
\* display's sleep
InitPanel == InitOn(OneFeeds, RainW, RainH)

NextPanel ==
    \/ PollerWake(1, {TRUE})
    \/ PollerGet(OneFeeds, {HTTP_CODE_OK}, {FALSE})
    \/ PollerParse
    \/ PollerParseEnd({TRUE})
    \/ PollerIncidents({"empty"})
    \/ PollerTake
    \/ PollerTakeTimeout
    \/ PollerSkip
    \/ PollerWritePub
    \/ PollerGive
    \/ FgBegin({0, 1}, BOOLEAN, BOOLEAN)
    \/ FgTake
    \/ FgTakeTimeout
    \/ FgCopy
    \/ FgGive
    \/ FgApply
    \/ FgPrev
    \/ FgPrevWrite
    \/ FgFinish
    \/ FgIdle(DrawsOf(FALSE))

SpecPanel == InitPanel /\ [][NextPanel]_vars

\* the two cores scheduled fairly: the link up or down, the GET answered or
\* refused, the panel never touched and the idle clock running.  Each core keeps running (the task is pinned to Core
\* 0, loop() to Core 1), and a context that keeps finding the mutex free
\* gets it: the other side holds it for one memcpy, far less than any of
\* the bounded waits.
InitLive == InitWith(OneFeeds)

TaskLive ==
    \/ PollerWake(1, BOOLEAN)
    \/ PollerGet(OneFeeds, HttpCodes, {FALSE})
    \/ PollerParse
    \/ PollerParseEnd({TRUE})
    \/ PollerIncidents({"empty"})
    \/ PollerTake
    \/ PollerTakeTimeout
    \/ PollerSkip
    \/ PollerWriteWifi
    \/ PollerWritePub
    \/ PollerGive

LoopLive ==
    \/ FgBegin({1}, {FALSE}, {FALSE})
    \/ FgTake
    \/ FgTakeTimeout
    \/ FgCopy
    \/ FgGive
    \/ FgApply
    \/ FgPrev
    \/ FgPrevWrite
    \/ FgFinish
    \/ FgIdle(DrawsOf(FALSE))

NextLive ==
    \/ PollerWake(1, BOOLEAN)
    \/ PollerGet(OneFeeds, HttpCodes, {FALSE})
    \/ PollerParse
    \/ PollerParseEnd({TRUE})
    \/ PollerIncidents({"empty"})
    \/ PollerTake
    \/ PollerTakeTimeout
    \/ PollerSkip
    \/ PollerWriteWifi
    \/ PollerWritePub
    \/ PollerGive
    \/ FgBegin({1}, {FALSE}, {FALSE})
    \/ FgTake
    \/ FgTakeTimeout
    \/ FgCopy
    \/ FgGive
    \/ FgApply
    \/ FgPrev
    \/ FgPrevWrite
    \/ FgFinish
    \/ FgIdle(DrawsOf(FALSE))

SpecLive ==
    /\ InitLive /\ [][NextLive]_vars
    /\ WF_vars(TaskLive) /\ WF_vars(LoopLive)
    /\ SF_vars(PollerTake) /\ SF_vars(FgTake)

\* the channel scheduled fairly: the link up or down, up to MaxPending
\* publishes unread, the panel never touched and the idle clock running, so
\* that the screensaver starts IdleTicks after every exit; the startup fetch
\* found the component operational
InitQueue == InitWith({ShortFeed})

TaskQueue ==
    \/ PollerWake(MaxPending, BOOLEAN)
    \/ PollerGet(OneFeeds, {HTTP_CODE_OK}, {FALSE})
    \/ PollerParse
    \/ PollerParseEnd({TRUE})
    \/ PollerIncidents({"empty"})
    \/ PollerTake
    \/ PollerTakeTimeout
    \/ PollerSkip
    \/ PollerWriteWifi
    \/ PollerWritePub
    \/ PollerGive

LoopQueue ==
    \/ FgBegin({1}, {FALSE}, {FALSE})
    \/ FgTake
    \/ FgTakeTimeout
    \/ FgCopy
    \/ FgGive
    \/ FgApply
    \/ FgPrev
    \/ FgPrevWrite
    \/ FgFinish
    \/ FgIdle(DrawsOf(FALSE))

NextQueue ==
    \/ PollerWake(MaxPending, BOOLEAN)
    \/ PollerGet(OneFeeds, {HTTP_CODE_OK}, {FALSE})
    \/ PollerParse
    \/ PollerParseEnd({TRUE})
    \/ PollerIncidents({"empty"})
    \/ PollerTake
    \/ PollerTakeTimeout
    \/ PollerSkip
    \/ PollerWriteWifi
    \/ PollerWritePub
    \/ PollerGive
    \/ FgBegin({1}, {FALSE}, {FALSE})
    \/ FgTake
    \/ FgTakeTimeout
    \/ FgCopy
    \/ FgGive
    \/ FgApply
    \/ FgPrev
    \/ FgPrevWrite
    \/ FgFinish
    \/ FgIdle(DrawsOf(FALSE))

SpecQueue ==
    /\ InitQueue /\ [][NextQueue]_vars
    /\ WF_vars(TaskQueue) /\ WF_vars(LoopQueue)
    /\ SF_vars(PollerTake) /\ SF_vars(FgTake)

\* every failure of a poll cycle (link down, HTTP error, parse error), with
\* the display awake and at most one publish unread
InitErrors == InitWith(ErrFeeds)

NextErrors ==
    \/ PollerWake(1, BOOLEAN)
    \/ PollerGet(ErrFeeds, HttpCodes, BOOLEAN)
    \/ PollerParse
    \/ PollerParseEnd({TRUE})
    \/ PollerIncidents(IncidentsOutcomes)
    \/ PollerTake
    \/ PollerTakeTimeout
    \/ PollerSkip
    \/ PollerWriteWifi
    \/ PollerWritePub
    \/ PollerGive
    \/ FgBegin({0, 1}, {FALSE}, BOOLEAN)
    \/ FgTake
    \/ FgTakeTimeout
    \/ FgCopy
    \/ FgGive
    \/ FgApply
    \/ FgPrev
    \/ FgPrevWrite
    \/ FgFinish
    \/ FgIdle(DrawsOf(FALSE))

SpecErrors == InitErrors /\ [][NextErrors]_vars

\* ================================================================ claims
\* ------------------------------------------------ the channel (SpecChannel)
\* C1: the channel is latest-wins.  The flag is up exactly while some publish
\* has not been copied out; each copy-out takes the snapshot published last,
\* however many were published since the previous copy-out, and clears the
\* flag, so nothing more is copied out until the task publishes again.
C1_LatestWins ==
    /\ [](newDataReady <=> unread > 0)
    /\ [](newDataReady => fetchResult = published)
    /\ [][pc = "copy" /\ pc' = "give" =>
              /\ unread >= 1
              /\ fres' = published
              /\ ~newDataReady'
              /\ unread' = 0]_vars

\* two publishes went unread, and the copy-out just made took the later one
C1_TwoPublishesOneCopy ==
    pc = "give" /\ itTook = 2 /\ fres = published /\ fres.valid

\* C9: a published snapshot is consumed at most once and none is lost.  The
\* copy-out and the clearing of the flag happen in one critical section of
\* the loop; when the loop's bounded wait for the mutex expires, the slot and
\* the flag are left as they were, the flag still up, and the next iteration
\* tries again.
C9_ConsumedOnce ==
    /\ [](unread > 0 => newDataReady)
    /\ [][pc = "copy" /\ pc' # "copy" =>
              /\ fetchMutex = "loop" /\ fetchMutex' = "loop"
              /\ newDataReady /\ ~newDataReady'
              /\ fres' = fetchResult]_vars
    /\ [][pc = "take" /\ pc' = "idle" =>
              /\ fetchMutex = "task"
              /\ newDataReady'
              /\ (UNCHANGED <<fetchResult, newDataReady, fres>>)]_vars
    /\ [][pc = "begin" /\ pc' # "begin" /\ newDataReady => pc' = "take"]_vars

\* the loop's wait has expired: nothing applied, the publish still pending
C9_TimeoutKeepsPending ==
    pc = "idle" /\ itApplied = "timeout" /\ newDataReady /\ unread > 0

\* C10: the mutex is held only around the copy.  The task holds it exactly
\* from its successful take to its give, with its result complete before the
\* take and untouched while it is held; the loop holds it exactly for the
\* copy-out, and updates prevStatus, the globals and the widgets without it.
C10_LockOnlyForCopy ==
    /\ [](fetchMutex = "task" <=> ppc \in {"write_wifi", "write_pub", "give"})
    /\ [](fetchMutex = "loop" <=> pc \in {"copy", "give"})
    /\ [][fetchMutex = "task" /\ fetchMutex' = "task" => pres' = pres]_vars
    /\ [][fetchMutex' # "loop" =>
              UNCHANGED <<fres>> \/ pc \in {"apply", "prev"}]_vars
    /\ [][fetchMutex = "loop" /\ fetchMutex' = "loop" =>
              (UNCHANGED <<prevStatus, modelVars, widgetVars>>)]_vars

\* the task holds the mutex to publish while the loop applies an earlier copy
C10_PublishDuringApply ==
    fetchMutex = "task" /\ ppc = "write_pub" /\ pc \in {"apply", "prev"}

\* C8 as stated: every poll cycle that completes ends with the slot
\* overwritten by the cycle's snapshot and the flag up.
C8_AlwaysPublishes ==
    [][ppc # "sleep" /\ ppc' = "sleep" =>
          ppc = "give" /\ newDataReady' /\ fetchResult' = published']_vars

\* C8, amended: a poll cycle ends in one of two ways.  Either it took the
\* mutex, and then the flag is up and the slot holds the cycle's result (with
\* WiFi down: valid false and the WiFi text, the other fields as they were);
\* or its bounded wait expired with the loop holding the mutex, and then the
\* cycle publishes nothing and leaves the slot and the flag as they were.
\* Whenever the task waits for the mutex, one of the two is possible.
C8_PublishesOrSkips ==
    /\ [][ppc = "give" /\ ppc' = "sleep" =>
              /\ newDataReady' /\ fetchResult' = published'
              /\ \/ fetchResult' = pres
                 \/ /\ ~fetchResult'.valid
                    /\ fetchResult'.statusBarText = TextWifi]_vars
    /\ [][ppc' = "skipped" /\ ppc \in {"take_wifi", "take_pub"} =>
              /\ fetchMutex = "loop"
              /\ (UNCHANGED <<fetchResult, newDataReady, unread>>)]_vars
    /\ [][ppc = "skipped" /\ ppc' = "sleep" =>
              (UNCHANGED <<fetchResult, newDataReady, unread>>)]_vars
    /\ [](ppc \in {"take_wifi", "take_pub"} =>
              ENABLED (PollerTake \/ PollerTakeTimeout))

\* a cycle with a valid result gave up: the slot does not hold the result
C8_ValidResultSkipped ==
    ppc = "skipped" /\ pres.valid /\ fetchResult # pres

\* result r has a retained component whose status is not that of the same
\* index in result q
DiffersFromResult(r, q) ==
    \E i \in 1..r.componentCount :
        q.components[i].status # r.components[i].status

\* C5 as stated: the task's flag is up iff some retained component's status
\* differs from the same index of the snapshot published immediately before
\* (stated for two snapshots that retain as many components).
C5_FlagAgainstPublished ==
    [][/\ ppc = "write_pub" /\ ppc' = "give"
       /\ pres.valid /\ published.valid
       /\ pres.componentCount = published.componentCount
       => (pres.statusChanged <=> DiffersFromResult(pres, published))]_vars

\* C5, amended: the task's flag is up iff some retained component's status
\* differed from the prevStatus entry of its index when the task read it;
\* prevStatus holds what the loop applied last (or the startup fetch), not
\* what the task published last.
C5_FlagAgainstApplied ==
    /\ pres.statusChanged = seenDiff
    /\ (ppc = "give" /\ fetchResult.valid =>
            fetchResult.statusChanged = seenDiff)

\* the second of two polls with the same statuses, the first still unread,
\* carries the flag
C5_SecondIdenticalPollFlagged ==
    /\ ppc = "write_pub" /\ pres.valid /\ pres.statusChanged
    /\ unread >= 1 /\ published.valid
    /\ pres.components = published.components

C3_ExitOnlyTouchOrStatus ==
    [][screensaverActive /\ ~screensaverActive' =>
          itTouched' \/ itDiffers']_vars

\* C4 as stated: applying a snapshot whose change flag is down while the
\* screensaver is active leaves the screensaver active and redraws nothing.
C4_FlagDownNoExit ==
    [][/\ itApplied' # itApplied /\ itApplied' \in {"valid", "invalid"}
       /\ screensaverActive /\ ~fres.statusChanged
       => screensaverActive' /\ ~itRedraw']_vars

\* ------------------------------------------------ one poll cycle (SpecFetch)
KnownStatuses == {Operational, Degraded, Partial, Major}

StatusesOf(r) == {r.components[i].status : i \in 1..Len(r.components)}

\* C7: the severity the claim gives for a snapshot
ExpectedSeverity(r) ==
    IF Major \in StatusesOf(r) THEN 2
    ELSE IF Degraded \in StatusesOf(r) \/ Partial \in StatusesOf(r)
            \/ r.hasIncidents THEN 1
    ELSE 0

\* C7: in every valid snapshot worstSeverity is 2 if some retained component
\* is in major_outage, else 1 if some retained component is degraded or in
\* partial outage or there are unresolved incidents, else 0, whatever the
\* order of the components.
C7_WorstSeverity ==
    /\ (ppc \in {"take_pub", "write_pub", "give"} /\ pres.valid =>
            pres.worstSeverity = ExpectedSeverity(pres))
    /\ (fetchResult.valid =>
            fetchResult.worstSeverity = ExpectedSeverity(fetchResult))

\* a published snapshot with a major outage listed before a degraded one
C7_MajorBeforeDegraded ==
    /\ fetchResult.valid /\ fetchResult.componentCount >= 2
    /\ fetchResult.components[1].status = Major
    /\ fetchResult.components[2].status = Degraded
    /\ fetchResult.worstSeverity = 2

\* C6 as stated: in every valid snapshot allOperational is true iff
\* worstSeverity is 0.
C6_AllOperationalIffNone ==
    fetchResult.valid =>
        (fetchResult.allOperational <=> fetchResult.worstSeverity = 0)

\* C6, amended: in every valid snapshot allOperational is true iff every
\* retained component is operational; it is equivalent to worstSeverity = 0
\* when there are no unresolved incidents and every retained status is one
\* of the four known ones.  Otherwise the two part only in two ways: a
\* status outside the known ones clears allOperational at severity 0, and
\* incidents alone give severity 1 with allOperational true.
C6_AllOperationalExact ==
    fetchResult.valid =>
        LET r == fetchResult
        IN  /\ r.allOperational <=> StatusesOf(r) \subseteq {Operational}
            /\ (~r.hasIncidents /\ StatusesOf(r) \subseteq KnownStatuses) =>
                   (r.allOperational <=> r.worstSeverity = 0)
            /\ (~r.allOperational /\ r.worstSeverity = 0) =>
                   ~(StatusesOf(r) \subseteq KnownStatuses)
            /\ (r.allOperational /\ r.worstSeverity # 0) =>
                   r.hasIncidents /\ r.worstSeverity = 1

\* a published snapshot without incidents, all statuses known, one degraded
C6_KnownStatusesDegraded ==
    /\ fetchResult.valid /\ ~fetchResult.hasIncidents
    /\ StatusesOf(fetchResult) = {Operational, Degraded}
    /\ ~fetchResult.allOperational /\ fetchResult.worstSeverity = 1

\* --------------------------------------------- the idle state machine (Spec)
\* C11: the screensaver starts exactly at the activation test of a loop
\* iteration in which the dashboard is shown, the display is not asleep and
\* the time since the last touch reference has reached the idle timeout; it
\* starts at no other step, never while the display is asleep and never
\* before the timeout.
C11_ActivationExact ==
    /\ [][pc = "idle" /\ pc' = "begin" =>
              (screensaverActive' /\ ~screensaverActive
                  <=> /\ ~screensaverActive
                      /\ ~screenAsleep
                      /\ touchElapsed >= IdleTicks)]_vars
    /\ [][~screensaverActive /\ screensaverActive' =>
              pc = "idle" /\ ~screenAsleep /\ touchElapsed = IdleTicks]_vars

\* the screensaver has just started, the idle timeout reached
C11_JustStarted ==
    /\ pc = "begin" /\ screensaverActive /\ colSprite /\ ~frameDue
    /\ touchElapsed = IdleTicks

\* C12: a touch sampled while the dashboard is shown moves only the idle
\* timer's reference: no transition, no redraw, and the slot, the flag, the
\* health fields, prevStatus and the animation state stay as they were,
\* touch after touch.
C12_TouchInDashboard ==
    [][pc = "begin" /\ pc' # "begin" /\ itTouched' /\ ~screensaverActive =>
          /\ touchElapsed' = 0
          /\ ~screensaverActive'
          /\ UNCHANGED <<sharedVars, taskVars, applyVars, modelVars, colSprite,
                         frameDue, widgetVars, itStops, itRedraw, itApplied,
                         histVars>>]_vars

\* the dashboard was touched in this iteration: nothing stopped or redrawn
C12_DashboardTouched ==
    /\ pc \in {"take", "idle"} /\ itTouched /\ ~screensaverActive
    /\ itStops = 0 /\ ~itRedraw /\ itApplied = "none" /\ touchElapsed = 0

\* C13 as stated: every transition of the controller, in either direction,
\* resets the idle timer's reference to the current time.
C13_EveryTransitionResets ==
    [][screensaverActive' # screensaverActive => touchElapsed' = 0]_vars

\* C13, amended: every exit from the screensaver, by touch or by change,
\* resets the idle timer's reference to the current time; the start of the
\* screensaver leaves it as it was and resets the frame timer instead.
C13_ExitResetsTimer ==
    /\ [][screensaverActive /\ ~screensaverActive' => touchElapsed' = 0]_vars
    /\ [][~screensaverActive /\ screensaverActive' =>
              touchElapsed' = touchElapsed /\ ~frameDue']_vars

\* untouched, the screensaver has exited on a change and the timer restarted
C13_ChangeExitRestartsTimer ==
    /\ pc = "idle" /\ itApplied = "valid" /\ itStops = 1 /\ ~itTouched
    /\ ~screensaverActive /\ touchElapsed = 0

\* C14: on every exit from the screensaver, by touch or by change, the
\* dashboard is redrawn, the status line shows the cached status text and the
\* banner is the one of the current health fields; the cached text is always
\* the statusBarText of the snapshot applied last, valid or not, whether or
\* not its widget update was suppressed.
C14_ExitRedraws ==
    /\ [][screensaverActive /\ ~screensaverActive' =>
              /\ itRedraw'
              /\ statusBarRight' = cachedStatusText'
              /\ statusBanner' = BannerOf(allOperational',
                                          hasUnresolvedIncidents',
                                          matrixSeverity')]_vars
    /\ [][pc = "apply" /\ pc' # "apply" =>
              cachedStatusText' = fres.statusBarText]_vars
    /\ [][cachedStatusText' # cachedStatusText => pc = "apply"]_vars

\* a touch has ended the screensaver and the status line shows the text of an
\* HTTP failure
C14_TouchShowsFailure ==
    /\ pc \in {"take", "idle"} /\ itTouched /\ itStops = 1
    /\ itApplied = "none" /\ ~screensaverActive
    /\ cachedStatusText = TextHttp(503) /\ statusBarRight = cachedStatusText

\* C15: while the screensaver is active no widget is written and the
\* dashboard is not redrawn: every step that finds the screensaver active and
\* leaves it active, the applying of a snapshot included, leaves the status
\* line and the banner as they were.
C15_WidgetsSuppressed ==
    [][screensaverActive /\ screensaverActive' =>
          (itRedraw' => itRedraw) /\ UNCHANGED widgetVars]_vars

\* a valid snapshot was applied under the screensaver, which stays; the
\* status line is not the one cached
C15_AppliedUnseen ==
    /\ pc = "idle" /\ itApplied = "valid" /\ screensaverActive /\ ~itRedraw
    /\ statusBarRight # cachedStatusText

\* ------------------------------------------- the failure paths (SpecErrors)
\* C16: applying a valid snapshot sets allOperational, hasUnresolvedIncidents
\* and matrixSeverity to the snapshot's values and leaves prevStatus equal to
\* the snapshot's status at every index it has, whether the dashboard or the
\* screensaver is shown and whether or not the screensaver exits.
C16_ModelFollowsSnapshot ==
    [][pc = "prev" /\ pc' = "idle" =>
          /\ allOperational' = fres.allOperational
          /\ hasUnresolvedIncidents' = fres.hasIncidents
          /\ matrixSeverity' = fres.worstSeverity
          /\ \A i \in 1..fres.componentCount :
                 prevStatus'[i] = fres.components[i].status]_vars

\* under the screensaver, which stays, a snapshot without the component in
\* major outage was applied: the severity fell although nothing exited
C16_SeverityFellUnseen ==
    /\ pc = "idle" /\ itApplied = "valid" /\ screensaverActive
    /\ itStops = 0 /\ matrixSeverity = 0 /\ prevStatus[2] = Major

\* C17: a components fetch that ends with a code other than HTTP_CODE_OK
\* leaves the result invalid with the text "HTTP error: <code>"; that result
\* is what the task publishes; and applying it changes none of
\* allOperational, matrixSeverity, hasUnresolvedIncidents and prevStatus,
\* whatever the incidents fetch of the same cycle put into the result.
IsHttpText(text) ==
    /\ text[1] = "HTTP error: %d"
    /\ text[2] \in HttpCodes \ {HTTP_CODE_OK}

C17_HttpFailureInvalid ==
    /\ [][ppc = "get" /\ ppc' = "incidents" =>
              /\ ~pres'.valid
              /\ pres'.componentCount = 0
              /\ pres'.statusBarText = TextJson \/ IsHttpText(pres'.statusBarText)]_vars
    /\ [][ppc = "get" /\ ppc' = "parse" => pres'.statusBarText = TextNone]_vars
    /\ [][ppc = "incidents" /\ ppc' # "incidents" /\ IsHttpText(pres.statusBarText) =>
              /\ ~pres'.valid
              /\ pres'.statusBarText = pres.statusBarText]_vars
    /\ [][ppc = "write_pub" /\ ppc' = "give" /\ IsHttpText(pres.statusBarText) =>
              /\ ~fetchResult'.valid
              /\ fetchResult'.statusBarText = pres.statusBarText]_vars
    /\ [][pc = "apply" /\ pc' # "apply" /\ IsHttpText(fres.statusBarText) =>
              /\ pc' = "idle"
              /\ cachedStatusText' = fres.statusBarText
              /\ UNCHANGED <<allOperational, matrixSeverity,
                             hasUnresolvedIncidents, prevStatus>>]_vars

\* the failed cycle's incidents fetch found unresolved incidents and raised
\* the result's severity to 1; the result was applied and the globals still
\* say no incidents, severity 0
C17_FailureWithIncidentsApplied ==
    /\ pc = "idle" /\ itApplied = "invalid" /\ unread = 0
    /\ IsHttpText(cachedStatusText) /\ published.statusBarText = cachedStatusText
    /\ published.hasIncidents /\ published.worstSeverity = 1
    /\ ~hasUnresolvedIncidents /\ matrixSeverity = 0

C19_LinkDownPublishes ==
    /\ [][ppc = "sleep" /\ ppc' = "take_wifi" =>
              UNCHANGED <<sharedVars, pres, feed, seenDiff>>]_vars
    /\ [][ppc = "take_wifi" /\ ppc' # "take_wifi" => ppc' = "write_wifi"]_vars

\* C19, amended: a cycle that starts with the link down fetches nothing and
\* compares nothing; it writes its result only if it gets the mutex, and
\* gives the cycle up with the slot and the flag untouched when the loop holds
\* the mutex through the wait; the write sets valid to false, the text to
\* "WiFi disconnected" and newDataReady to true, and leaves every other field
\* of the slot, the severity fields among them, as it was.
C19_LinkDownPublishesIfLocked ==
    /\ [][ppc = "sleep" /\ ppc' = "take_wifi" =>
              UNCHANGED <<sharedVars, pres, feed, seenDiff>>]_vars
    /\ [][ppc = "take_wifi" /\ ppc' # "take_wifi" =>
              \/ ppc' = "write_wifi" /\ fetchMutex = "none"
              \/ /\ ppc' = "skipped" /\ fetchMutex = "loop"
                 /\ UNCHANGED <<sharedVars, histVars>>]_vars
    /\ [][ppc = "write_wifi" /\ ppc' # "write_wifi" =>
              /\ ppc' = "give"
              /\ newDataReady'
              /\ fetchResult' = [fetchResult EXCEPT !.valid = FALSE,
                                                    !.statusBarText = TextWifi]
              /\ fetchResult'.worstSeverity = fetchResult.worstSeverity
              /\ fetchResult'.allOperational = fetchResult.allOperational
              /\ fetchResult'.hasIncidents = fetchResult.hasIncidents
              /\ UNCHANGED <<prevStatus, pres, feed, seenDiff>>]_vars

\* the WiFi-down result has just been written over a valid one with a major
\* outage: the slot is invalid and still carries that severity
C19_WifiOverOutage ==
    /\ ppc = "give" /\ fetchMutex = "task" /\ newDataReady
    /\ ~fetchResult.valid /\ fetchResult.statusBarText = TextWifi
    /\ fetchResult.worstSeverity > 1 /\ ~fetchResult.allOperational

\* ------------------------------------------------- the snapshot invariant
\* the slot holds a snapshot once some cycle has written it
PublishedOnce == published # ZeroResult

\* the foreground's copy, between the memcpy and the end of its use
CopiedOut == pc \in {"give", "apply"}

SnapshotAsStated(r) ==
    /\ r.componentCount <= MAX_COMPONENTS
    /\ ~r.valid => /\ r.componentCount = 0
                   /\ r.components = <<>>
                   /\ r.statusBarText # TextNone

SnapshotAsBuilt(r) ==
    /\ r.componentCount <= MAX_COMPONENTS
    /\ Len(r.components) <= MAX_COMPONENTS
    /\ ~r.valid => /\ r.statusBarText # TextNone
                   /\ r.statusBarText # TextWifi =>
                          r.componentCount = 0 /\ r.components = <<>>

\* C20 as stated: a snapshot in the slot or copied out that is not valid has
\* no components and a non-empty text, and no snapshot has more than
\* MAX_COMPONENTS components.
C20_InvalidIsEmpty ==
    /\ PublishedOnce => SnapshotAsStated(fetchResult)
    /\ CopiedOut => SnapshotAsStated(fres)

\* C20, amended: a snapshot in the slot or copied out that is not valid has a
\* non-empty text, and has no components unless it is the WiFi-down result,
\* which keeps the components and the count the slot held before; no
\* snapshot, the task's own res included, has more than MAX_COMPONENTS
\* components.
C20_InvalidHasReason ==
    /\ PublishedOnce => SnapshotAsBuilt(fetchResult)
    /\ CopiedOut => SnapshotAsBuilt(fres)
    /\ pres.componentCount <= MAX_COMPONENTS
    /\ Len(pres.components) <= MAX_COMPONENTS
    /\ ppc \in {"take_pub", "write_pub"} /\ ~pres.valid =>
           /\ pres.componentCount = 0 /\ pres.components = <<>>
           /\ pres.statusBarText \in {TextJson} \cup
                  {TextHttp(c) : c \in HttpCodes \ {HTTP_CODE_OK}}

\* the loop holds a copy of a WiFi-down result written over a snapshot of a
\* feed of MAX_COMPONENTS + 1 entries: invalid, with MAX_COMPONENTS components
C20_WifiCopyKeepsComponents ==
    /\ pc = "apply" /\ ~fres.valid /\ fres.statusBarText = TextWifi
    /\ fres.componentCount = MAX_COMPONENTS
    /\ Len(fres.components) = MAX_COMPONENTS

\* -------------------------------------------------- the incidents feed
\* C21: when the incidents GET or its parse fails, the cycle's hasIncidents is
\* false and the step leaves worstSeverity as the component loop set it; the
\* result then published has hasIncidents false and, when valid, the severity
\* of its worst known component status.
C21_IncidentsFailureIsNone ==
    /\ [][ppc = "incidents" /\ ppc' # "incidents" /\ incidentsDown' =>
              /\ ~pres'.hasIncidents
              /\ pres' = [pres EXCEPT !.hasIncidents = FALSE]
              /\ pres'.worstSeverity = pres.worstSeverity]_vars
    /\ [][ppc = "write_pub" /\ ppc' # "write_pub" /\ incidentsDown =>
              /\ ~fetchResult'.hasIncidents
              /\ fetchResult'.valid =>
                     fetchResult'.worstSeverity =
                         ExpectedSeverity(fetchResult')]_vars

\* a cycle whose components are all operational and whose incidents fetch
\* failed has published: severity 0, no incidents
C21_FailedIncidentsPublished ==
    /\ ppc = "give" /\ incidentsDown /\ fetchResult.valid
    /\ fetchResult.componentCount > 0 /\ fetchResult.allOperational
    /\ ~fetchResult.hasIncidents /\ fetchResult.worstSeverity = 0

\* ------------------------------------------------------ the poll interval
\* C22: a fetch attempt or the WiFi-down branch is entered only from the
\* delay, after a vTaskDelay of REFRESH_INTERVAL; the slot and the flag are
\* written by the task only in its write step, which is followed by the give;
\* and a cycle that gave the mutex back or gave up waiting for it goes to the
\* delay and nowhere else.
C22_SleepsBetweenCycles ==
    /\ [][ppc' # ppc /\ ppc' \in {"get", "take_wifi"} =>
              ppc = "sleep" /\ lastDelay' = REFRESH_INTERVAL]_vars
    /\ [][ppc' # ppc /\ ppc = "sleep" => ppc' \in {"get", "take_wifi"}]_vars
    /\ [][ppc' # ppc /\ ppc \in {"give", "skipped"} => ppc' = "sleep"]_vars
    /\ [][published' # published \/ unread' > unread =>
              ppc \in {"write_wifi", "write_pub"} /\ ppc' = "give"]_vars
    /\ [][ppc' # ppc /\ ppc' \in {"write_wifi", "write_pub"} =>
              ppc \in {"take_wifi", "take_pub"}]_vars
    /\ [][ppc' # ppc /\ ppc' = "take_pub" => ppc = "incidents"]_vars
    /\ [][ppc' # ppc /\ ppc' = "incidents" => ppc \in {"get", "parse"}]_vars

\* after a cycle that published a failure, the next attempt has begun, out of
\* a full delay
C22_AttemptAfterFailure ==
    /\ ppc = "get" /\ lastDelay = REFRESH_INTERVAL
    /\ PublishedOnce /\ ~published.valid /\ unread = 0

\* ------------------------------------------------------ the component filter
\* the entries of feed f that are neither flagged only_show_if_degraded nor
\* named "Visit...", in feed order
RECURSIVE Retained(_)
Retained(f) ==
    IF f = <<>> THEN <<>>
    ELSE LET c == Head(f)
             rest == Retained(Tail(f))
         IN  IF c.only_show_if_degraded \/ HasVisitPrefix(c.name) THEN rest
             ELSE <<[name |-> c.name, status |-> c.status]>> \o rest

FirstRetained(f) ==
    LET r == Retained(f)
    IN  SubSeq(r, 1, IF Len(r) > MAX_COMPONENTS THEN MAX_COMPONENTS ELSE Len(r))

\* C23: when the component loop ends, the result's list is the first
\* MAX_COMPONENTS retained entries of the document in feed order, its count
\* their number, its severity and its change flag those of that list alone
\* (prevStatus compared at the index in the list); and that list is what the
\* task publishes.
C23_FirstTenRetained ==
    /\ [][ppc = "parse" /\ ppc' = "incidents" =>
              LET kept == FirstRetained(doc)
              IN  /\ pres'.components = kept
                  /\ pres'.componentCount = Len(kept)
                  /\ pres'.worstSeverity =
                         ExpectedSeverity([components |-> kept,
                                           hasIncidents |-> FALSE])
                  /\ pres'.statusChanged =
                         (\E i \in 1..Len(kept) :
                             prevStatus[i] # kept[i].status)]_vars
    /\ [][ppc = "incidents" /\ ppc' # "incidents" =>
              /\ pres'.components = pres.components
              /\ pres'.componentCount = pres.componentCount]_vars
    /\ [][ppc = "write_pub" /\ ppc' # "write_pub" =>
              /\ fetchResult'.components = pres.components
              /\ fetchResult'.componentCount = pres.componentCount]_vars

\* published from a feed whose first entry was flagged and whose second was
\* named "Visit ...": the list starts at the third entry and ends at the
\* twelfth; the thirteenth, in major outage, left no trace
C23_SkippedAndTruncated ==
    /\ ppc = "give" /\ fetchResult.valid
    /\ fetchResult.componentCount = MAX_COMPONENTS
    /\ fetchResult.components[1].name = FeedName(3)
    /\ fetchResult.components[MAX_COMPONENTS].name = FeedName(12)
    /\ fetchResult.worstSeverity < 2
    /\ ~incidentsDown /\ ~fetchResult.hasIncidents

\* ------------------------------------------------- the previous-status table
\* C24: no step of the task changes prevStatus; a step that changes it is a
\* step of the loop inside the comparison loop of applyFetchResults, on a
\* valid copy taken under the mutex in this pass; applying an invalid copy
\* and giving up the wait for the mutex leave it as it was.
C24_PrevStatusWrittenByLoop ==
    /\ [][prevStatus' # prevStatus =>
              /\ pc \in {"prev", "prev_write"}
              /\ fres.valid
              /\ fetchMutex # "loop"
              /\ UNCHANGED taskVars]_vars
    /\ [][taskVars' # taskVars => prevStatus' = prevStatus]_vars
    /\ [][pc = "apply" /\ pc' # "apply" /\ ~fres.valid =>
              pc' = "idle" /\ prevStatus' = prevStatus]_vars
    /\ [][pc = "take" /\ pc' = "idle" => prevStatus' = prevStatus]_vars
    /\ [][pc' = "prev" /\ pc # "prev" =>
              pc = "prev_write" \/ (pc = "apply" /\ fres.valid)]_vars

\* the loop has just written an entry of prevStatus while the task is in
\* the middle of its component loop, reading the table
C24_WrittenWhileTaskReads ==
    /\ pc = "prev" /\ statusChanged /\ fi >= 1 /\ fres.valid
    /\ prevStatus[fi] = fres.components[fi].status
    /\ ppc = "parse" /\ Len(pres.components) >= 1

\* ------------------------------------------------------------ the quiet day
\* C25: with a startup fetch of MAX_COMPONENTS operational components, every
\* poll that returns the same feed publishes a valid snapshot of
\* MAX_COMPONENTS components with allOperational true and the change flag
\* false, and with severity 0 when it found no incidents; the loop finds no
\* entry of prevStatus to rewrite, and applying a snapshot whose incidents
\* agree with what is shown neither stops the screensaver nor starts it.
C25_SteadyPollNoExit ==
    /\ [][ppc = "write_pub" /\ ppc' # "write_pub" =>
              /\ fetchResult'.valid
              /\ fetchResult'.allOperational
              /\ ~fetchResult'.statusChanged
              /\ fetchResult'.componentCount = MAX_COMPONENTS
              /\ ~fetchResult'.hasIncidents => fetchResult'.worstSeverity = 0]_vars
    /\ [][pc = "prev" /\ pc' # "prev" =>
              /\ pc' = "idle"
              /\ prevStatus' = prevStatus
              /\ fres.hasIncidents = hasUnresolvedIncidents =>
                     /\ screensaverActive' = screensaverActive
                     /\ itStops' = itStops
                     /\ UNCHANGED <<colSprite, touchElapsed>>]_vars

\* the first poll after a startup without incidents was applied under the
\* screensaver, which is still on
C25_AppliedUnderRain ==
    /\ pc = "idle" /\ itApplied = "valid" /\ screensaverActive /\ colSprite
    /\ itStops = 0 /\ ~itTouched
    /\ allOperational /\ matrixSeverity = 0 /\ ~hasUnresolvedIncidents
    /\ published.valid /\ ~published.statusChanged /\ unread = 0
    /\ \A i \in 1..MAX_COMPONENTS : prevStatus[i] = Operational

\* ------------------------------------------------------------ the columns
\* C26: a column that goes from active to inactive leaves the step with a
\* spawnDelay from 5 to 39; a column that goes from inactive to active in a
\* frame had spawnDelay 0, drew a head from -119 to 0 (it has moved down by
\* its speed once since) and has a speed from 14 to 25 and a length from 8 to
\* 23; matrixInit leaves every column active with head at or above 0 and
\* speed and length in the same ranges; and every active column has its speed
\* and length in these ranges.
C26_ColumnLifecycle ==
    /\ [](\A i \in DOMAIN matrixCols :
             matrixCols[i].active =>
                 /\ matrixCols[i].speed \in 14..25
                 /\ matrixCols[i].length \in 8..23)
    /\ [][\A i \in DOMAIN matrixCols :
              /\ matrixCols[i].active /\ ~matrixCols'[i].active =>
                     matrixCols'[i].spawnDelay \in 5..39
              /\ ~matrixCols[i].active /\ matrixCols'[i].active
                     /\ screensaverActive =>
                     /\ matrixCols[i].spawnDelay = 0
                     /\ matrixCols'[i].headY - matrixCols'[i].speed \in -119..0
                     /\ matrixCols'[i].speed \in 14..25
                     /\ matrixCols'[i].length \in 8..23
              /\ ~screensaverActive /\ screensaverActive' =>
                     /\ matrixCols'[i].active
                     /\ matrixCols'[i].headY \in (1 - screenH)..0
                     /\ matrixCols'[i].speed \in 14..25
                     /\ matrixCols'[i].length \in 8..23]_vars

\* a column back from its delay: only a respawn puts a head this far above
\* the screen
C26_ColumnRespawned ==
    /\ screensaverActive /\ pc = "begin"
    /\ matrixCols[1].active
    /\ matrixCols[1].headY < -screenH
    /\ matrixCols[1].headY - matrixCols[1].speed = -119

\* ------------------------------------------------------------- the fade
\* the three channels of an RGB565 word
Red(c) == c \div 2048
Green(c) == (c \div 32) % 64
Blue(c) == c % 32

\* a channel after one tick of decay by d
Decayed(x, d) == IF x > d THEN x - d ELSE 0

\* the step is an animation tick
IsTick ==
    /\ pc = "idle" /\ pc' = "begin"
    /\ screensaverActive /\ ~screenAsleep /\ frameDue /\ colSprite

\* C27: in a tick, a cell that the column as updated in that tick does not
\* cover and that holds a colour other than 0 gets red and blue lowered by 2
\* and green by 4, none below 0, each channel that was above 0 strictly
\* lower, the word made of exactly these three channels; a cell at 0 that is
\* not covered stays at 0; and outside ticks a colour changes only when
\* matrixInit zeroes it.
C27_TrailFades ==
    /\ [][IsTick =>
              \A i \in DOMAIN matrixColors, row \in 1..RowsOn(screenH) :
                  LET old == matrixColors[i][row]
                      new == matrixColors'[i][row]
                  IN  ~InTrail(matrixCols'[i], row) =>
                         /\ new \in 0..65535
                         /\ Red(new) = Decayed(Red(old), 2)
                         /\ Green(new) = Decayed(Green(old), 4)
                         /\ Blue(new) = Decayed(Blue(old), 2)
                         /\ Red(old) > 0 => Red(new) < Red(old)
                         /\ Green(old) > 0 => Green(new) < Green(old)
                         /\ Blue(old) > 0 => Blue(new) < Blue(old)
                         /\ old = 0 => new = 0]_vars
    /\ [][~IsTick =>
              \A i \in DOMAIN matrixColors, row \in 1..RowsOn(screenH) :
                  \/ matrixColors'[i][row] = matrixColors[i][row]
                  \/ matrixColors'[i][row] = 0 /\ ~screensaverActive
                         /\ screensaverActive']_vars

\* the trail has passed the first row: the cell is outside it and holds what
\* the decay has left of the red of a major outage
C27_FadingCell ==
    /\ screensaverActive /\ pc = "begin" /\ matrixSeverity = 2
    /\ matrixCols[1].active /\ ~InTrail(matrixCols[1], 1)
    /\ matrixColors[1][1] > 0
    /\ Red(matrixColors[1][1]) > 0

\* ------------------------------------------------------------ activation
\* C28: the step that starts the screensaver leaves every on-screen column
\* active with its head at or above the top edge and spawnDelay 0, and every
\* cell with glyph 0 and colour 0, whatever the arrays held before.
C28_ActivationResets ==
    [][~screensaverActive /\ screensaverActive' =>
          /\ DOMAIN matrixCols' = 1..ColsOn(screenW)
          /\ \A i \in 1..ColsOn(screenW) :
                 /\ matrixCols'[i].active
                 /\ matrixCols'[i].headY <= 0
                 /\ matrixCols'[i].spawnDelay = 0
                 /\ \A row \in 1..RowsOn(screenH) :
                        /\ matrixGlyphIdx'[i][row] = 0
                        /\ matrixColors'[i][row] = 0]_vars

\* the screensaver has just started over the rain an earlier session left:
\* the cells are blank and the column is at the top again
C28_RestartedClean ==
    /\ pc = "begin" /\ screensaverActive /\ itWiped
    /\ matrixCols[1].active /\ matrixCols[1].headY <= 0
    /\ matrixCols[1].spawnDelay = 0
    /\ \A row \in 1..RowsOn(screenH) :
           matrixGlyphIdx[1][row] = 0 /\ matrixColors[1][row] = 0

\* ------------------------------------------------------- the strip sprite
\* C29: at the end of every loop iteration colSprite is allocated exactly
\* when screensaverActive is true; every stop releases a sprite that was
\* allocated, at most once in an iteration, every start allocates when there
\* was none, and matrixDrawFrame is called only with the sprite allocated.
C29_SpriteWhileActive ==
    /\ [](pc = "begin" => (colSprite <=> screensaverActive))
    /\ [][screensaverActive /\ ~screensaverActive' =>
              colSprite /\ ~colSprite' /\ itStops' = 1]_vars
    /\ [][~screensaverActive /\ screensaverActive' =>
              ~colSprite /\ colSprite']_vars
    /\ [](pc = "idle" /\ screensaverActive /\ ~screenAsleep /\ frameDue =>
              colSprite)

\* a change exit has just released the sprite of a screensaver that an
\* earlier iteration started; the iteration is about to end
C29_ReleasedOnChange ==
    /\ pc = "idle" /\ itApplied = "valid" /\ itStops = 1 /\ ~itTouched
    /\ ~screensaverActive /\ ~colSprite /\ touchElapsed = 0

\* ------------------------------------------- the rain and the controller
\* C30: the columns and the cells change only in the last step of a loop
\* iteration, and only when the screensaver is active after it and the
\* display is awake; an animation tick needs the screensaver active before
\* it, the display awake and a frame due.  In an iteration that ends in
\* Dashboard, in one in which a touch or a change stopped the screensaver,
\* and in one in which the display is asleep, they do not change.
C30_RainOnlyInScreensaver ==
    /\ [][matrixVars' # matrixVars =>
              /\ pc = "idle" /\ pc' = "begin"
              /\ screensaverActive' /\ ~screenAsleep
              /\ (screensaverActive => frameDue)]_vars
    /\ [][pc = "idle" /\ (~screensaverActive' \/ itStops > 0 \/ screenAsleep)
              => UNCHANGED matrixVars]_vars

\* a changed status has just stopped a screensaver whose column was falling
\* over lit cells; the iteration is about to pass the animation test
C30_ChangeExitOverRain ==
    /\ pc = "idle" /\ itApplied = "valid" /\ itStops = 1 /\ ~itTouched
    /\ ~screensaverActive /\ HoldsRain /\ matrixCols[1].active

\* ------------------------------------------------- a head above the screen
\* C31 as stated: in a tick that leaves a column's headY below 0, no cell of
\* that column is inside the active trail and none takes the head colour.
C31_NegativeHeadUnseen ==
    [][IsTick =>
          \A i \in 1..ColsOn(screenW) :
              matrixCols'[i].headY < 0 =>
                  \A row \in 1..RowsOn(screenH) :
                      /\ ~InTrail(matrixCols'[i], row)
                      /\ matrixColors'[i][row] # 65535]_vars

\* ------------------------------------------------------- the cells drawn
\* C32: a cell is drawn (lines 938-940) exactly when its colour is nonzero,
\* and every such cell carries a glyph assigned since the screensaver
\* started; the first assignment is the head's, because a cell that a tick
\* leaves in the trail at distance 1 or more had its glyph before that tick.
C32_LitCellsHaveGlyph ==
    /\ [](\A i \in 1..ColsOn(screenW) : \A row \in 1..RowsOn(screenH) :
              matrixColors[i][row] # 0 => matrixGlyphIdx[i][row] # 0)
    /\ [][IsTick =>
              \A i \in 1..ColsOn(screenW) : \A row \in 1..RowsOn(screenH) :
                  (/\ InTrail(matrixCols'[i], row)
                   /\ DistFromHead(matrixCols'[i], row) >= 1)
                      => matrixGlyphIdx[i][row] # 0]_vars

\* the head has passed the top cell, which is lit in a trail colour and
\* shows the glyph it was given
C32_TrailCellLit ==
    /\ pc = "begin" /\ screensaverActive /\ InTrail(matrixCols[1], 1)
    /\ DistFromHead(matrixCols[1], 1) >= 1
    /\ matrixColors[1][1] # 0 /\ matrixColors[1][1] # 65535
    /\ matrixGlyphIdx[1][1] # 0

\* ------------------------------------------------ no block on the channel
\* C33: the mutex is held only between a successful take and the give that
\* follows it, with no wait in between; a take that finds the mutex held
\* expires.  So under fair scheduling the task always comes back to its
\* delay and loop() always finishes its iteration and starts the next.
C33_NeverBlocked ==
    /\ [](fetchMutex = "task" => ppc \in {"write_wifi", "write_pub", "give"})
    /\ [](fetchMutex = "loop" => pc \in {"copy", "give"})
    /\ ((ppc # "sleep") ~> (ppc = "sleep"))
    /\ ((pc # "begin") ~> (pc = "begin"))
    /\ []<>(pc # "begin")

\* the task's wait for the mutex has expired while the loop was copying out
C33_TaskWaitExpired ==
    ppc = "skipped" /\ fetchMutex = "loop" /\ pc \in {"copy", "give"}

\* ------------------------------------------------------ no torn snapshot
\* C34: the slot is written only while the task holds the mutex and read
\* only while the loop holds it; a full publish puts the whole res of one
\* cycle in the slot, a valid slot is that res untouched, and every valid
\* snapshot the loop copies out is that res field for field.
C34_NoTornSnapshot ==
    /\ [][fetchResult' # fetchResult =>
              fetchMutex = "task" /\ pc \notin {"copy", "give"}]_vars
    /\ [][ppc = "write_pub" /\ ppc' = "give" =>
              fetchResult' = pres /\ published' = pres]_vars
    /\ [](fetchResult.valid => fetchResult = published)
    /\ [][pc = "copy" /\ pc' = "give" /\ fetchResult.valid =>
              /\ fetchMutex = "loop"
              /\ ppc \notin {"write_wifi", "write_pub", "give"}
              /\ fres' = published /\ fres'.valid]_vars

\* the loop has copied a valid snapshot out while the task, its link down,
\* waits for the mutex to write the WiFi-down result
C34_CopyWhileWifiWaits ==
    /\ pc = "give" /\ fetchMutex = "loop" /\ ppc = "take_wifi"
    /\ fres.valid /\ fres = published /\ fres.componentCount > 0

\* ------------------------------------------------- a publish is observed
\* C35: whenever newDataReady is up, loop() eventually copies the slot out
\* and clears the flag; only the copy-out clears it, and what it copies is
\* the snapshot published last.
C35_PublishObserved ==
    /\ (newDataReady ~> ~newDataReady)
    /\ [][newDataReady /\ ~newDataReady' =>
              /\ pc = "copy" /\ pc' = "give" /\ fetchMutex = "loop"
              /\ fres' = published /\ unread' = 0]_vars

\* the loop's 50 ms wait has expired on a publish the task had not yet
\* released; the flag stays up for the next iteration
C35_FirstAttemptExpired ==
    /\ pc = "idle" /\ itApplied = "timeout" /\ newDataReady
    /\ fetchMutex = "none" /\ ppc = "sleep"

\* ------------------------------------------- a change that stays is seen
\* from some point on every cycle finds the link up, gets a valid result and
\* reads status s for the component
FeedSettles(s) ==
    <>[](/\ ppc \notin {"take_wifi", "write_wifi"}
         /\ (ppc \in {"take_pub", "write_pub"} => pres.valid)
         /\ (doc # <<>> => doc[1].status = s))

\* from some point on the table of applied statuses holds s
AppliedForGood(s) == <>[](prevStatus[1] = s)

\* C36: if the feed settles on a status, with every later fetch succeeding,
\* the loop eventually applies a snapshot that carries it, whatever was
\* overwritten in the slot or dropped at the task's take before; and an
\* apply whose snapshot is unlike the one applied last (in a status, hence
\* here in its severity) leaves the screensaver if it is active.
C36_ChangeNotLost ==
    /\ (FeedSettles(Major) => AppliedForGood(Major))
    /\ (FeedSettles(Operational) => AppliedForGood(Operational))
    /\ [][pc = "prev" /\ pc' = "idle" /\ screensaverActive
              /\ (statusChanged \/ matrixSeverity # fres.worstSeverity)
              => ~screensaverActive' /\ itStops' = 1
                 /\ prevStatus[1] = fres.components[1].status]_vars

\* under the screensaver the loop has copied out the snapshot that carries
\* major_outage with two publishes unread: the first was overwritten in the
\* slot, and the table still holds the status applied last
C36_CopiedSecondPublish ==
    /\ pc = "give" /\ itTook = 2 /\ itDiffers /\ screensaverActive
    /\ fres.valid /\ fres.components[1].status = Major
    /\ prevStatus[1] = Operational

\* C37: whenever a foreground loop iteration ends with the dashboard on
\* screen, every row whose prevStatus entry has been filled shows the text of
\* that entry; and every apply of a valid result leaves prevStatus equal to
\* the result at every index below its componentCount, with the row showing
\* that status if the dashboard is on screen after it.
C37_DashboardFresh ==
    /\ []((pc = "begin" /\ ~screensaverActive) =>
            \A i \in 1..MAX_COMPONENTS :
                prevStatus[i] # "" =>
                    statusLabels[i] = statusDisplayText(prevStatus[i]))
    /\ [][(pc = "prev" /\ pc' = "idle") =>
            \A i \in 1..fres.componentCount :
                /\ prevStatus[i] = fres.components[i].status
                /\ prevStatus'[i] = prevStatus[i]
                /\ prevStatus[i] # ""
                /\ ~screensaverActive' =>
                       statusLabels'[i] = statusDisplayText(prevStatus[i])]_vars

\* an apply has just left the screensaver on a status change, and the first
\* row shows the new status
C37_RowAfterChangeExit ==
    /\ pc = "idle"
    /\ itApplied = "valid"
    /\ itStops = 1
    /\ ~itTouched
    /\ ~screensaverActive
    /\ prevStatus[1] = Major
    /\ statusLabels[1] = "Major Outage"

\* C38: every exit from the screensaver, by touch or by change, leaves the
\* time since lastTouchTime at zero; that time grows only with the clock, one
\* tick per loop iteration at most, and never while a touch is sampled; and
\* the screensaver starts only at the activation test of an iteration that
\* made no exit, with the full timeout elapsed since lastTouchTime. So an
\* exit is followed by a whole timeout without touch before the next start,
\* and neither the iteration of the exit nor the next one starts it.
C38_NoEarlyReturn ==
    /\ [][(screensaverActive /\ ~screensaverActive') =>
            /\ touchElapsed' = 0
            /\ itStops' = itStops + 1]_vars
    /\ [][(~screensaverActive /\ screensaverActive') =>
            /\ pc = "idle"
            /\ itStops = 0
            /\ ~itTouched
            /\ touchElapsed >= IdleTicks]_vars
    /\ [][touchElapsed' > touchElapsed =>
            /\ pc = "begin"
            /\ ~itTouched'
            /\ touchElapsed' = touchElapsed + 1]_vars
    /\ []((pc # "begin" /\ itStops > 0) =>
            /\ ~screensaverActive
            /\ touchElapsed = 0
            /\ touchElapsed + 1 < IdleTicks)

\* the activation test is reached in the iteration of a change exit
C38_TestAfterChangeExit ==
    /\ pc = "idle"
    /\ itApplied = "valid"
    /\ itStops = 1
    /\ ~itTouched
    /\ ~screensaverActive
    /\ ~screenAsleep
    /\ ~colSprite
    /\ touchElapsed = 0

\* C39: a column retired in a tick with spawnDelay d (5 to 39) is inactive
\* after each of the next d ticks and active after the one that follows; an
\* active column moves down by its speed, at least 14, in every tick and is
\* retired in the tick that takes its trail below the screen; and while the
\* screensaver stays on and keeps ticking, every column is active again and
\* again and inactive again and again.
C39_RespawnTiming ==
    /\ [](\A i \in 1..ColsOn(screenW) :
            ~matrixCols[i].active =>
                offTicks[i] + matrixCols[i].spawnDelay = offDelay[i])
    /\ [][IsTick =>
            \A i \in 1..ColsOn(screenW) :
                /\ (matrixCols[i].active /\ ~matrixCols'[i].active) =>
                       /\ matrixCols'[i].spawnDelay \in Random(5, 40)
                       /\ offDelay'[i] = matrixCols'[i].spawnDelay
                       /\ offTicks'[i] = 0
                       /\ matrixCols'[i].headY
                              - matrixCols'[i].length * MATRIX_CHAR_H > screenH
                /\ (~matrixCols[i].active /\ offTicks[i] < offDelay[i]) =>
                       /\ ~matrixCols'[i].active
                       /\ offTicks'[i] = offTicks[i] + 1
                /\ (~matrixCols[i].active /\ offTicks[i] = offDelay[i]) =>
                       matrixCols'[i].active
                /\ (matrixCols[i].active /\ matrixCols'[i].active) =>
                       /\ matrixCols'[i].speed >= 14
                       /\ matrixCols'[i].headY
                              = matrixCols[i].headY + matrixCols'[i].speed
                       /\ matrixCols'[i].headY
                              - matrixCols'[i].length * MATRIX_CHAR_H
                              <= screenH]_vars
    /\ (<>[]screensaverActive /\ []<><<IsTick>>_vars) =>
           \A i \in 1..ColsOn(RainW) :
               /\ []<>(matrixCols[i].active)
               /\ []<>(~matrixCols[i].active)

\* a column retired with the longest delay has passed that many ticks
\* inactive and is about to start again
C39_DelayServed ==
    /\ pc = "idle"
    /\ screensaverActive /\ ~screenAsleep /\ frameDue /\ colSprite
    /\ ~matrixCols[1].active
    /\ offDelay[1] = 39
    /\ offTicks[1] = 39
    /\ matrixCols[1].spawnDelay = 0

\* C40: the difference millis() - lastTouchTime taken modulo 2^32 is the
\* number of milliseconds that have passed since lastTouchTime was assigned,
\* whether or not the counter has wrapped in between, and likewise for
\* lastFrameTime; so the idle test passes exactly when 300000 ms or more
\* have passed since the touch reference, and the frame test exactly when
\* 33 ms or more have passed since the frame reference.
C40_WrapSafe ==
    /\ Sub32(millis, lastTouchTime) = Limbs(uptime - touchAt)
    /\ Sub32(millis, lastFrameTime) = Limbs(uptime - frameAt)
    /\ IdleElapsed <=> (uptime - touchAt >= SCREENSAVER_TIMEOUT)
    /\ FrameElapsed <=> (uptime - frameAt >= MATRIX_FRAME_MS)

\* the counter has wrapped since the touch reference was taken, and the idle
\* timeout has passed to the millisecond
C40_TimeoutAcrossWrap ==
    /\ ~Geq32(millis, lastTouchTime)
    /\ uptime - touchAt = SCREENSAVER_TIMEOUT
    /\ IdleElapsed
====
